---- MODULE Spec2Model ----
(***************************************************************************)
(* Model of the DAX query agent of PowerBI-Activity: the Query Executor    *)
(* (dax_agent.execute_dax_query and the older powerbi_new variant), the    *)
(* Credential Provider, Schema Discovery with its time-based cache and the *)
(* keyword-driven Documentation Retriever.                                 *)
(*                                                                         *)
(* Python strings built by f-strings are records: tmpl is the literal      *)
(* template, the other fields are the values interpolated into it.         *)
(* Python's None is the record/tag "None"; an optional global is a         *)
(* sequence, <<>> for None and <<v>> for a value.                          *)
(***************************************************************************)
EXTENDS Integers, Sequences, FiniteSets, TLC

VARIABLES
    env,                \* the process configuration read by os.getenv at import
    token_call,         \* the last get_powerbi_access_token call and what it returned
    tool_call,          \* the last call of an agent tool: arguments and what it gave
    agent,              \* the current invocation of the agent: state and transcript
    insight_call,       \* the last fast-metrics computation: context, predicate, result
    compare_rows,       \* the last comparison answered by the dataset: measure and rows
    panel,              \* st.session_state of one session of powerbi.py and its URL
    startup,            \* the import and first run of an application script
    shared,             \* the schema cache as objects shared by session threads
    exec_call,          \* the last execute_dax_query call: inputs and what it returned
    now,                \* time.time()
    schema_cache,       \* _schema_cache: <<>> or <<map>>
    schema_cache_time,  \* _schema_cache_time: <<>> or <<t>>
    active,             \* the threads that call get_cached_schema
    pc,                 \* per thread: position inside get_cached_schema
    current_time,       \* per thread: local current_time of get_cached_schema
    schema,             \* per thread: local dict of discover_table_columns
    table_idx,          \* per thread: index of the next table of the for loop
    probe_calls,        \* per thread: probe queries executed per table in this call
    probe_posts,        \* per thread: POSTs issued per table in this call
    ret_schema,         \* per thread: what the last get_cached_schema returned
    raised,             \* per thread: an exception escaped get_cached_schema
    n_calls,            \* number of get_cached_schema calls started
    remote_keys,        \* keys of the first row the dataset returns, per table
    doc_file,           \* dax_documentation.txt: <<>> when absent, else <<sections>>
    dax_docs_cache,     \* _dax_docs_cache: <<>> or <<sections>>
    doc_call            \* the last get_relevant_dax_docs call: query and result

vars == <<env, token_call, tool_call, agent, insight_call, compare_rows, panel, startup, shared, exec_call, now, schema_cache, schema_cache_time, active, pc,
          current_time, schema, table_idx, probe_calls, probe_posts,
          ret_schema, raised, n_calls, remote_keys, doc_file, dax_docs_cache,
          doc_call>>

exec_vars == <<exec_call>>
\* the variables of the components around the executor, the schema and the
\* documentation
app_vars == <<compare_rows, panel, startup, shared>>
ext_core_vars == <<token_call, tool_call, agent, insight_call>>
ext_vars == <<ext_core_vars, app_vars>>
schema_vars == <<now, schema_cache, schema_cache_time, active, pc, current_time,
                 schema, table_idx, probe_calls, probe_posts, ret_schema,
                 raised, n_calls, remote_keys>>
doc_vars == <<doc_file, dax_docs_cache, doc_call>>

(***************************************************************************)
(* Python values                                                           *)
(***************************************************************************)
None == "None"

\* an error string; NoErr is Python's None in the err position
Err(tmpl, status, code, msg) ==
    [tmpl |-> tmpl, status |-> status, code |-> code, msg |-> msg]

NoErr == Err("None", 0, "", "")

\* `if err:` - every error string the code builds is non-empty
Truthy(err) == err # NoErr

(***************************************************************************)
(* Process configuration (os.getenv at import time): TRUE when the         *)
(* variable is set to a non-empty value, the only thing all([...]) reads.  *)
(***************************************************************************)
EnvNames == {"AAD_TENANT_ID", "AAD_CLIENT_ID", "AAD_CLIENT_SECRET",
             "POWERBI_WORKSPACE_ID", "POWERBI_DATASET_ID"}

Envs == [EnvNames -> BOOLEAN]

\* what msal's acquire_token_for_client can do
IdpOutcomes == {"access_token", "error_description", "error_only", "exception"}

\* a provider that asks the identity provider before looking at the
\* configuration
get_powerbi_access_token_ask_first(e, idp) ==
    CASE idp = "access_token" ->
            [token |-> "bearer", err |-> NoErr, idp_calls |-> 1]
      [] idp \in {"error_description", "error_only"} ->
            [token |-> None,
             err |-> Err("Token error: {}", 0, "", "error_description"),
             idp_calls |-> 1]
      [] OTHER ->
            [token |-> None,
             err |-> Err("Failed to get Power BI token: {}", 0, "", "exception"),
             idp_calls |-> 1]

\* dax_agent.get_powerbi_access_token / powerbi_new.get_powerbi_access_token
\* / powerbi.get_powerbi_access_token
get_powerbi_access_token(e, idp) ==
    IF ~(e["AAD_TENANT_ID"] /\ e["AAD_CLIENT_ID"] /\ e["AAD_CLIENT_SECRET"])
    THEN [token |-> None, err |-> Err("Missing Azure AD credentials", 0, "", ""),
          idp_calls |-> 0]
    ELSE CASE idp = "access_token" ->
                [token |-> "bearer", err |-> NoErr, idp_calls |-> 1]
           [] idp = "error_description" ->
                [token |-> None,
                 err |-> Err("Token error: {}", 0, "", "error_description"),
                 idp_calls |-> 1]
           [] idp = "error_only" ->
                [token |-> None,
                 err |-> Err("Token error: {}", 0, "", "Unknown error"),
                 idp_calls |-> 1]
           [] OTHER ->
                [token |-> None,
                 err |-> Err("Failed to get Power BI token: {}", 0, "", "exception"),
                 idp_calls |-> 1]

(***************************************************************************)
(* The remote query endpoint: what requests.post does                      *)
(***************************************************************************)
Statuses == {200, 204, 304, 400, 401, 403, 404, 429, 500, 503}

\* response bodies by what resp.json() makes of them
BodyTags == {"envelope_rows",    \* {"results":[{"tables":[{"rows":[{...}]}]}]}
             "envelope_norows",  \* {"results":[{"tables":[{"rows":[]}]}]}
             "results_empty",    \* {"results":[]}
             "empty_dict",       \* {}
             "null",             \* null
             "list",             \* a non-empty JSON array
             "notjson",          \* resp.json() raises
             "error_full",       \* {"error":{"code":"E","message":"M"}}
             "error_nofields",   \* {"error":{}}
             "error_null",       \* {"error":null}
             "number",           \* a JSON number other than 0
             "results_null"}     \* {"results":null}

\* the answers of the model: every status with the bodies that matter for it
Responses ==
    [kind : {"response"}, status : {200, 204, 304},
     body : {"envelope_rows", "null", "list", "notjson"}]
    \cup [kind : {"response"}, status : {400},
          body : {"error_full", "error_nofields", "error_null", "list", "notjson"}]
    \cup [kind : {"response"}, status : Statuses \ {200, 204, 304, 400},
          body : {"error_full", "notjson"}]
    \cup [kind : {"exception"}, status : {0}, body : {"timeout", "connection"}]

json_raises(b) == b = "notjson"
is_dict(b) == b \notin {"null", "list", "notjson", "number"}
\* Python truthiness of the parsed body
json_truthy(b) == b \notin {"null", "empty_dict"}

\* requests.Response.raise_for_status: HTTPError for 400 <= status < 600
raise_for_status_raises(status) == status >= 400 /\ status < 600

\* what one execute_dax_query call returns, and the POSTs it issued
Ret(result, err, posts) == [result |-> result, err |-> err, posts |-> posts]

\* the status == 400 branch of dax_agent.execute_dax_query
query_error(b) ==
    IF json_raises(b) THEN Err("DAX query failed: {}", 0, "", "JSONDecodeError")
    ELSE IF ~is_dict(b) \/ b = "error_null"
         THEN Err("DAX query failed: {}", 0, "", "AttributeError")
    ELSE IF b = "error_full"
         THEN Err("DAX query error ({}): {}", 0, "E", "M")
    ELSE Err("DAX query error ({}): {}", 0, "", "Invalid query")

\* a retrying executor: re-issues the POST after any failed attempt
execute_dax_query_retry_any(e, idp, resp) ==
    LET tok == get_powerbi_access_token(e, idp) IN
    IF Truthy(tok.err) THEN Ret(None, tok.err, 0)
    ELSE IF ~(e["POWERBI_WORKSPACE_ID"] /\ e["POWERBI_DATASET_ID"])
         THEN Ret(None, Err("Missing POWERBI_WORKSPACE_ID or POWERBI_DATASET_ID", 0, "", ""), 0)
    ELSE IF resp.kind = "exception"
         THEN Ret(None, Err("DAX query failed: {}", 0, "", resp.body), 3)
    ELSE IF resp.status = 400 THEN Ret(None, query_error(resp.body), 3)
    ELSE IF resp.status = 401 THEN Ret(None, Err("401 Unauthorized", 401, "", ""), 3)
    ELSE IF resp.status = 403 THEN Ret(None, Err("403 Forbidden", 403, "", ""), 3)
    ELSE IF resp.status = 404 THEN Ret(None, Err("404 Not Found", 404, "", ""), 3)
    ELSE IF raise_for_status_raises(resp.status)
         THEN Ret(None, Err("DAX query failed: {}", resp.status, "", "HTTPError"), 3)
    ELSE IF json_raises(resp.body)
         THEN Ret(None, Err("DAX query failed: {}", 0, "", "JSONDecodeError"), 3)
    ELSE Ret(resp.body, NoErr, 1)

\* an executor that hides the provider's error behind its own text and
\* posts the query all the same
execute_dax_query_token_rewrap(e, idp, resp) ==
    LET r == execute_dax_query_retry_any(e, idp, resp) IN
    IF Truthy(get_powerbi_access_token(e, idp).err)
    THEN Ret(None, Err("DAX query failed: {}", 0, "", "token"), 1)
    ELSE [r EXCEPT !.posts = 1]

\* dax_agent.execute_dax_query: the token, the id check, one POST, the
\* status chain, raise_for_status, resp.json(), all exceptions of the POST
\* part caught by `except Exception`
execute_dax_query(e, idp, resp) ==
    LET tok == get_powerbi_access_token(e, idp) IN
    IF Truthy(tok.err) THEN Ret(None, tok.err, 0)
    ELSE IF ~(e["POWERBI_WORKSPACE_ID"] /\ e["POWERBI_DATASET_ID"])
         THEN Ret(None, Err("Missing POWERBI_WORKSPACE_ID or POWERBI_DATASET_ID", 0, "", ""), 0)
    ELSE IF resp.kind = "exception"
         THEN Ret(None, Err("DAX query failed: {}", 0, "", resp.body), 1)
    ELSE IF resp.status = 400 THEN Ret(None, query_error(resp.body), 1)
    ELSE IF resp.status = 401 THEN Ret(None, Err("401 Unauthorized", 401, "", ""), 1)
    ELSE IF resp.status = 403 THEN Ret(None, Err("403 Forbidden", 403, "", ""), 1)
    ELSE IF resp.status = 404 THEN Ret(None, Err("404 Not Found", 404, "", ""), 1)
    ELSE IF raise_for_status_raises(resp.status)
         THEN Ret(None, Err("DAX query failed: {}", resp.status, "", "HTTPError"), 1)
    ELSE IF json_raises(resp.body)
         THEN Ret(None, Err("DAX query failed: {}", 0, "", "JSONDecodeError"), 1)
    ELSE Ret(resp.body, NoErr, 1)

\* powerbi_new.execute_dax_query: no id check, one POST, 200 or the generic
\* failure text with the status, the whole body inside try/except
execute_dax_query_new(e, idp, resp) ==
    LET tok == get_powerbi_access_token(e, idp) IN
    IF Truthy(tok.err) THEN Ret(None, tok.err, 0)
    ELSE IF resp.kind = "exception"
         THEN Ret(None, Err("Error executing DAX: {}", 0, "", resp.body), 1)
    ELSE IF resp.status = 200
         THEN IF json_raises(resp.body)
              THEN Ret(None, Err("Error executing DAX: {}", 0, "", "JSONDecodeError"), 1)
              ELSE Ret(resp.body, NoErr, 1)
    ELSE Ret(None, Err("DAX query failed: {} - {}", resp.status, "", "text"), 1)

NoTokenCall == [idp |-> "access_token",
                ret |-> [token |-> None, err |-> NoErr, idp_calls |-> 0],
                done |-> FALSE]

\* one call of get_powerbi_access_token
GetPowerbiAccessToken ==
    /\ \E idp \in IdpOutcomes :
          token_call' = [idp |-> idp, ret |-> get_powerbi_access_token(env, idp),
                         done |-> TRUE]
    /\ UNCHANGED <<env, app_vars, tool_call, agent, insight_call, exec_vars, schema_vars, doc_vars>>

NoCall == [fn |-> "none", idp |-> "access_token",
           resp |-> [kind |-> "exception", status |-> 0, body |-> "timeout"],
           ret |-> Ret(None, NoErr, 0)]

\* one call of dax_agent.execute_dax_query
ExecuteDaxQuery ==
    /\ \E idp \in IdpOutcomes, resp \in Responses :
          exec_call' = [fn |-> "dax_agent", idp |-> idp, resp |-> resp,
                        ret |-> execute_dax_query(env, idp, resp)]
    /\ UNCHANGED <<env, ext_vars, schema_vars, doc_vars>>

\* one call of powerbi_new.execute_dax_query
ExecuteDaxQueryNew ==
    /\ \E idp \in IdpOutcomes, resp \in Responses :
          exec_call' = [fn |-> "powerbi_new", idp |-> idp, resp |-> resp,
                        ret |-> execute_dax_query_new(env, idp, resp)]
    /\ UNCHANGED <<env, ext_vars, schema_vars, doc_vars>>

(***************************************************************************)
(* Schema Discovery: discover_table_columns and get_cached_schema          *)
(***************************************************************************)
Threads == {"t1", "t2"}

\* tables = ['flights', 'airlines', 'origin_airport', 'destination_airport']
Tables == <<"flights", "airlines", "origin_airport", "destination_airport">>

TableSet == {Tables[i] : i \in DOMAIN Tables}

\* the refresh interval of get_cached_schema
SCHEMA_TTL == 3600

\* column names are sequences of characters
Contains(s, c) == \E i \in DOMAIN s : s[i] = c

FirstIndex(s, c) == CHOOSE i \in DOMAIN s : s[i] = c /\ \A j \in 1..(i - 1) : s[j] # c

RECURSIVE rstrip(_, _)
\* str.rstrip(c): drop every trailing c
rstrip(s, c) ==
    IF s # <<>> /\ s[Len(s)] = c THEN rstrip(SubSeq(s, 1, Len(s) - 1), c) ELSE s

\* col.split('[')[1]: the text between the first '[' and the next one
split_second(s) ==
    LET rest == SubSeq(s, FirstIndex(s, "[") + 1, Len(s)) IN
    IF Contains(rest, "[") THEN SubSeq(rest, 1, FirstIndex(rest, "[") - 1) ELSE rest

\* the body of `for col in columns`
clean_col(col) ==
    IF Contains(col, "[") /\ Contains(col, "]")
    THEN rstrip(split_second(col), "]")
    ELSE col

clean_columns(columns) == [i \in DOMAIN columns |-> clean_col(columns[i])]

\* the key lists a first row can have: qualified, bare and oddly bracketed names
KeyLists == {<< <<"t", "[", "A", "]">>, <<"B">> >>,
             << <<"t", "[", "C", "]", "]">>, <<"]", "[", "D">> >>}

\* the execute_dax_query nested in discover_table_columns
probe_query(e, idp, resp) ==
    LET tok == get_powerbi_access_token(e, idp) IN
    IF Truthy(tok.err) THEN Ret(None, tok.err, 0)
    ELSE IF ~(e["POWERBI_WORKSPACE_ID"] /\ e["POWERBI_DATASET_ID"])
         THEN Ret(None, Err("Missing POWERBI_WORKSPACE_ID or POWERBI_DATASET_ID", 0, "", ""), 0)
    ELSE IF resp.kind = "exception"
         THEN Ret(None, Err("Query failed: {}", 0, "", resp.body), 1)
    ELSE IF resp.status # 200
         THEN Ret(None, Err("Error {}", resp.status, "", ""), 1)
    ELSE IF json_raises(resp.body)
         THEN Ret(None, Err("Query failed: {}", 0, "", "JSONDecodeError"), 1)
    ELSE Ret(resp.body, NoErr, 1)

\* result.get("results", [{}])[0].get("tables", [{}])[0].get("rows", []):
\* the exception it raises, or the rows it finds
navigate_rows(b) ==
    CASE b \in {"list", "number"} -> [exc |-> "AttributeError", rows |-> "none"]
      [] b = "results_null" -> [exc |-> "TypeError", rows |-> "none"]
      [] b = "results_empty" -> [exc |-> "IndexError", rows |-> "none"]
      [] b = "envelope_rows" -> [exc |-> "", rows |-> "rows"]
      [] OTHER -> [exc |-> "", rows |-> "empty"]

Put(m, k, v) == [x \in DOMAIN m \cup {k} |-> IF x = k THEN v ELSE m[x]]

\* the statements inside `try:` of the table loop
try_body(m, table, r, keys) ==
    LET nav == navigate_rows(r.result) IN
    IF nav.exc # "" THEN [schema |-> m, exc |-> nav.exc]
    ELSE IF nav.rows = "rows"
         THEN [schema |-> Put(m, table, clean_columns(keys)), exc |-> ""]
    ELSE [schema |-> m, exc |-> ""]

\* the loop body with the except clause removed
loop_body_no_except(m, table, r, keys) ==
    IF ~Truthy(r.err) /\ r.result # None /\ json_truthy(r.result)
    THEN try_body(m, table, r, keys)
    ELSE [schema |-> m, exc |-> ""]

\* one iteration of `for table in tables`: `if not err and result:`, the
\* try block, and the bare `except:` that stores an empty list
loop_body(m, table, r, keys) ==
    IF ~Truthy(r.err) /\ r.result # None /\ json_truthy(r.result)
    THEN LET t == try_body(m, table, r, keys) IN
         IF t.exc # "" THEN [schema |-> Put(m, table, <<>>), exc |-> ""] ELSE t
    ELSE [schema |-> m, exc |-> ""]

\* a loop that stops at the first table whose probe failed
next_table_abort(i, r) == IF Truthy(r.err) THEN Len(Tables) + 1 ELSE i + 1

\* `for table in tables`: the next table, whatever the probe gave
next_table(i, r) == i + 1

EmptyMap == [x \in {} |-> <<>>]

NoCounts == [x \in TableSet |-> 0]

\* `<=` instead of `<` in the freshness test
cache_fresh_inclusive(cache, cache_time, t) ==
    /\ cache # <<>>
    /\ cache_time # <<>>
    /\ t - cache_time[1] <= SCHEMA_TTL

\* the test of get_cached_schema that returns the cached map
cache_fresh(cache, cache_time, t) ==
    /\ cache # <<>>
    /\ cache_time # <<>>
    /\ t - cache_time[1] < SCHEMA_TTL

\* bounds of the schema model
MaxCalls == 2

MaxTime == 3601

\* the instants at which the clock is read: around the multiples of the interval
TimePoints == {t \in 0..MaxTime : t % SCHEMA_TTL \in {0, 1, SCHEMA_TTL - 1}}

\* the configurations the schema model runs under
SchemaEnvs == {[n \in EnvNames |-> TRUE],
               [n \in EnvNames |-> n # "AAD_CLIENT_SECRET"],
               [n \in EnvNames |-> n # "POWERBI_DATASET_ID"]}

\* the answers a probe query gets
ProbeResponses ==
    [kind : {"response"}, status : {200},
     body : {"envelope_rows", "envelope_norows", "results_empty", "null", "list", "notjson"}]
    \cup [kind : {"response"}, status : {401, 503}, body : {"error_full"}]
    \cup [kind : {"exception"}, status : {0}, body : {"timeout"}]

\* the identity provider during a probe round: a token, a refusal, an exception
ProbeIdpOutcomes == {"access_token", "error_description", "exception"}

\* time passes
Tick ==
    /\ \E t \in TimePoints : t > now /\ now' = t
    /\ UNCHANGED <<env, ext_vars, exec_vars, doc_vars, schema_cache, schema_cache_time,
                   active, pc, current_time, schema, table_idx, probe_calls,
                   probe_posts, ret_schema, raised, n_calls, remote_keys>>

\* get_cached_schema up to the call of discover_table_columns: reads the
\* clock, returns the cached map when it is fresh, else starts a probe round
GetCachedSchema(t) ==
    /\ pc[t] = "idle"
    /\ n_calls < MaxCalls
    /\ n_calls' = n_calls + 1
    /\ current_time' = [current_time EXCEPT ![t] = now]
    /\ probe_calls' = [probe_calls EXCEPT ![t] = NoCounts]
    /\ probe_posts' = [probe_posts EXCEPT ![t] = 0]
    /\ raised' = [raised EXCEPT ![t] = FALSE]
    /\ IF cache_fresh(schema_cache, schema_cache_time, now)
       THEN /\ ret_schema' = [ret_schema EXCEPT ![t] = schema_cache]
            /\ UNCHANGED <<pc, schema, table_idx>>
       ELSE /\ pc' = [pc EXCEPT ![t] = "discover"]
            /\ schema' = [schema EXCEPT ![t] = EmptyMap]
            /\ table_idx' = [table_idx EXCEPT ![t] = 1]
            /\ UNCHANGED ret_schema
    /\ UNCHANGED <<env, ext_vars, exec_vars, doc_vars, now, schema_cache, schema_cache_time,
                   active, remote_keys>>

\* one iteration of the table loop of discover_table_columns
ProbeTable(t) ==
    /\ pc[t] = "discover"
    /\ table_idx[t] <= Len(Tables)
    /\ \E idp \in ProbeIdpOutcomes, resp \in ProbeResponses :
          LET table == Tables[table_idx[t]]
              r == probe_query(env, idp, resp)
              b == loop_body(schema[t], table, r, remote_keys)
          IN  /\ probe_calls' = [probe_calls EXCEPT ![t][table] = @ + 1]
              /\ probe_posts' = [probe_posts EXCEPT ![t] = @ + r.posts]
              /\ schema' = [schema EXCEPT ![t] = b.schema]
              /\ IF b.exc # ""
                 THEN /\ raised' = [raised EXCEPT ![t] = TRUE]
                      /\ pc' = [pc EXCEPT ![t] = "idle"]
                      /\ UNCHANGED table_idx
                 ELSE /\ table_idx' = [table_idx EXCEPT ![t] = next_table(@, r)]
                      /\ UNCHANGED <<raised, pc>>
    /\ UNCHANGED <<env, ext_vars, exec_vars, doc_vars, now, schema_cache, schema_cache_time,
                   active, current_time, ret_schema, n_calls, remote_keys>>

\* discover_table_columns returns; get_cached_schema stores the map and the
\* time read at its start, and returns the map
PublishSchema(t) ==
    /\ pc[t] = "discover"
    /\ table_idx[t] > Len(Tables)
    /\ schema_cache' = <<schema[t]>>
    /\ schema_cache_time' = <<current_time[t]>>
    /\ ret_schema' = [ret_schema EXCEPT ![t] = <<schema[t]>>]
    /\ pc' = [pc EXCEPT ![t] = "idle"]
    /\ UNCHANGED <<env, ext_vars, exec_vars, doc_vars, now, active, current_time, schema,
                   table_idx, probe_calls, probe_posts, raised, n_calls, remote_keys>>

(***************************************************************************)
(* Documentation Retriever: load_dax_documentation, get_relevant_dax_docs  *)
(*                                                                         *)
(* A section is [txt, marks]: txt identifies its text (equal texts are     *)
(* equal sections), marks are the marker strings that occur in it.  A      *)
(* query is the set of its words; KeywordsIn gives the keywords that occur *)
(* in the lower-cased word as substrings.                                  *)
(***************************************************************************)
Sec(txt, marks) == [txt |-> txt, marks |-> marks]

\* the sections a documentation file is made of, in file order
SectionPool == << Sec(0, {}),
                  Sec(1, {"TOPN"}),
                  Sec(2, {"TOPN", "ADDCOLUMNS"}),
                  Sec(3, {"TOPN", "SUM"}),
                  Sec(4, {"TOPN", "COUNTROWS", "EVALUATE"}),
                  Sec(5, {"Critical Rules"}),
                  Sec(6, {"Common Patterns", "EVALUATE", "compare multiple"}),
                  Sec(7, {"Critical Rules", "TOPN"}) >>

\* the longest documentation file of the model, in sections
MaxSections == 7

QueryWords == {"TOP", "delay", "by", "summary", "total number"}

\* the keywords found in word.lower()
KeywordsIn(word) ==
    CASE word = "TOP" -> {"top"}
      [] word = "delay" -> {"delay"}
      [] word = "by" -> {"by"}
      [] word = "summary" -> {"summary", "sum"}
      [] word = "total number" -> {"total number", "total"}
      [] OTHER -> {}

\* `word in query_lower`
in_query(kw, query) == \E w \in query : kw \in KeywordsIn(w)

\* any(word in query_lower for word in words)
any_in_query(words, query) == \E kw \in words : in_query(kw, query)

\* [s for s in sections if <one of marks> in s]
having(sections, marks) == SelectSeq(sections, LAMBDA x : x.marks \cap marks # {})

RECURSIVE dedupe_from(_, _)
dedupe_from(seq, seen) ==
    IF seq = <<>> THEN <<>>
    ELSE IF Head(seq) \in seen THEN dedupe_from(Tail(seq), seen)
    ELSE <<Head(seq)>> \o dedupe_from(Tail(seq), seen \cup {Head(seq)})

\* no deduplication at all
keep_duplicates(seq) == seq

\* list(dict.fromkeys(relevant)): first occurrences, in order
dedupe(seq) == dedupe_from(seq, {})

\* unique_sections[:5]
first_five(seq) == SubSeq(seq, 1, IF Len(seq) < 5 THEN Len(seq) ELSE 5)

\* the working list after the six keyword groups and the critical rules
relevant_list(sections, query) ==
    (IF any_in_query({"delay", "breakdown", "compare", "types", "categories"}, query)
     THEN having(sections, {"UNION", "compare multiple"}) ELSE <<>>)
    \o (IF any_in_query({"top", "highest", "lowest", "best", "worst", "most", "least"}, query)
        THEN having(sections, {"TOPN"}) ELSE <<>>)
    \o (IF any_in_query({"group", "by", "each", "per"}, query)
        THEN having(sections, {"ADDCOLUMNS", "Group"}) ELSE <<>>)
    \o (IF any_in_query({"count", "how many", "total number"}, query)
        THEN having(sections, {"COUNTROWS", "Count"}) ELSE <<>>)
    \o (IF any_in_query({"sum", "total", "amount"}, query)
        THEN having(sections, {"SUM"}) ELSE <<>>)
    \o (IF any_in_query({"insight", "summary", "overview", "quick"}, query)
        THEN having(sections, {"Common Patterns", "Quick Stats"}) ELSE <<>>)
    \o having(sections, {"Critical Rules"})

\* the fallback of `if not relevant`
with_fallback(sections, relevant) ==
    IF relevant = <<>>
    THEN having(sections, {"EVALUATE", "ADDCOLUMNS", "Common Patterns", "Critical Rules"})
    ELSE relevant

\* get_relevant_dax_docs on the loaded text: the list that is joined
get_relevant_dax_docs(sections, query) ==
    first_five(dedupe(with_fallback(sections, relevant_list(sections, query))))

\* the text load_dax_documentation returns when no file is found or reading fails
NoDocsText == << Sec(100, {}) >>

ErrorLoadingText == << Sec(101, {}) >>

\* load_dax_documentation: the text it returns and the cache it leaves
load_dax_documentation(cache, file, read_ok) ==
    IF cache # <<>> THEN [text |-> cache[1], cache |-> cache]
    ELSE IF file = <<>> THEN [text |-> NoDocsText, cache |-> cache]
    ELSE IF ~read_ok THEN [text |-> ErrorLoadingText, cache |-> cache]
    ELSE [text |-> file[1], cache |-> file]

NoDocCall == [query |-> {}, sections |-> <<>>, relevant |-> <<>>, result |-> <<>>,
              done |-> FALSE]

\* one call of get_relevant_dax_docs(query)
GetRelevantDaxDocs ==
    /\ \E query \in SUBSET QueryWords,
          read_ok \in IF dax_docs_cache = <<>> /\ doc_file # <<>> THEN BOOLEAN ELSE {TRUE} :
          LET l == load_dax_documentation(dax_docs_cache, doc_file, read_ok) IN
          /\ dax_docs_cache' = l.cache
          /\ doc_call' = [query |-> query, sections |-> l.text,
                          relevant |-> with_fallback(l.text, relevant_list(l.text, query)),
                          result |-> get_relevant_dax_docs(l.text, query),
                          done |-> TRUE]
    /\ UNCHANGED <<env, ext_vars, exec_vars, schema_vars, doc_file>>

(***************************************************************************)
(* The agent tools: format_dax_results and the five @tool functions        *)
(*                                                                         *)
(* What a tool call gives is a record: raised is "" and tmpl the text      *)
(* returned, or raised names the exception that escapes the function.      *)
(* A metric or dimension argument is a sequence of word fragments, so that *)
(* `a in b` is computed as the occurrence of one sequence in the other.    *)
(***************************************************************************)
ToolStr(tmpl, err, docs, map) ==
    [raised |-> "", tmpl |-> tmpl, err |-> err, docs |-> docs, schema |-> map]

Text(tmpl) == ToolStr(tmpl, NoErr, <<>>, <<>>)

ToolRaise(exc) ==
    [raised |-> exc, tmpl |-> "", err |-> NoErr, docs |-> <<>>, schema |-> <<>>]

\* format_dax_results(dax_response)
format_dax_results(b) ==
    IF b = None \/ ~json_truthy(b) THEN Text("No data returned")
    ELSE IF b = "number" THEN ToolRaise("TypeError")
    ELSE IF b \in {"list", "error_full", "error_nofields", "error_null"}
         THEN Text("No data returned")
    ELSE IF b = "results_null" THEN ToolRaise("TypeError")
    ELSE IF b = "envelope_rows" THEN Text("rows")
    ELSE Text("No data found")

\* `if err: return f"Error: {err}"` and `return format_dax_results(result)`
error_or_formatted(r) ==
    IF Truthy(r.err) THEN ToolStr("Error: {}", r.err, <<>>, <<>>)
    ELSE format_dax_results(r.result)

\* what a tool did: the query it sent to the executor ("" when none), the
\* POSTs issued and what it gave
ToolDid(query, posts, ret) == [query |-> query, posts |-> posts, ret |-> ret]

\* execute_dax_tool(dax_query)
execute_dax_tool(e, o) ==
    LET r == execute_dax_query(e, o.idp, o.resp) IN
    ToolDid("dax_query", r.posts, error_or_formatted(r))

\* str.lower() on a fragment
LowerOf(w) ==
    CASE w = "TOTAL" -> "total"
      [] w = "FLIGHTS" -> "flights"
      [] w = "Airline" -> "airline"
      [] OTHER -> w

\* str.lower()
lower(s) == [i \in DOMAIN s |-> LowerOf(s[i])]

\* `a in b` for two strings
occurs_in(a, b) ==
    \E i \in 0..(Len(b) - Len(a)) : SubSeq(b, i + 1, i + Len(a)) = a

\* the keys of the dict `queries` of quick_stats_tool, in insertion order
MetricNames ==
    <<"total_flights", "avg_delay", "total_delays", "cancellation_rate",
      "cancelled_count">>

MetricKeys ==
    << <<"total", "_", "flights">>,
       <<"avg", "_", "delay">>,
       <<"total", "_", "delay", "s">>,
       <<"cancel", "lation", "_", "rate">>,
       <<"cancel", "led", "_", "count">> >>

\* `key in metric_lower or metric_lower in key`
metric_matches(key, metric_lower) ==
    occurs_in(key, metric_lower) \/ occurs_in(metric_lower, key)

\* quick_stats_tool(metric): the first key of the dict that matches decides
quick_stats_tool(metric, e, o) ==
    LET metric_lower == lower(metric)
        hits == {i \in DOMAIN MetricKeys : metric_matches(MetricKeys[i], metric_lower)}
    IN  IF hits = {}
        THEN ToolDid("", 0, Text("Unknown metric: {}. Available: {}"))
        ELSE LET k == CHOOSE i \in hits : \A j \in hits : i <= j
                 r == execute_dax_query(e, o.idp, o.resp)
             IN  ToolDid(MetricNames[k], r.posts, error_or_formatted(r))

\* compare_tool(dimension, top_n): the if/elif chain on dimension_lower
compare_tool(dimension, top_n, e, o) ==
    LET dimension_lower == lower(dimension)
        r == execute_dax_query(e, o.idp, o.resp)
        branch == IF occurs_in(<<"airline">>, dimension_lower) THEN "airline"
                  ELSE IF occurs_in(<<"origin">>, dimension_lower) THEN "origin"
                  ELSE IF occurs_in(<<"month">>, dimension_lower) THEN "month"
                  ELSE ""
    IN  IF branch = ""
        THEN ToolDid("", 0,
                 Text("Unknown dimension: {}. Available: airline, origin, destination, month"))
        ELSE ToolDid(branch, r.posts, error_or_formatted(r))

RECURSIVE discover_from(_, _, _, _, _)
\* the table loop of discover_table_columns from table i on, outs[i] being
\* what the identity provider and the endpoint do for table i
discover_from(i, m, e, outs, keys) ==
    IF i > Len(Tables) THEN [schema |-> m, exc |-> ""]
    ELSE LET r == probe_query(e, outs[i].idp, outs[i].resp)
             b == loop_body(m, Tables[i], r, keys)
         IN  IF b.exc # "" THEN b
             ELSE discover_from(next_table(i, r), b.schema, e, outs, keys)

\* discover_table_columns()
discover_table_columns(e, outs, keys) == discover_from(1, EmptyMap, e, outs, keys)

\* get_cached_schema() in one piece: the map returned and the cache left
get_cached_schema(cache, cache_time, t, e, outs, keys) ==
    IF cache_fresh(cache, cache_time, t)
    THEN [ret |-> cache, cache |-> cache, cache_time |-> cache_time, exc |-> ""]
    ELSE LET d == discover_table_columns(e, outs, keys) IN
         IF d.exc # ""
         THEN [ret |-> <<>>, cache |-> cache, cache_time |-> cache_time, exc |-> d.exc]
         ELSE [ret |-> <<d.schema>>, cache |-> <<d.schema>>, cache_time |-> <<t>>,
               exc |-> ""]

\* schema_tool(input): try get_cached_schema and list the map, except
\* Exception return the error text
schema_tool(g) ==
    IF g.exc # "" THEN ToolDid("", 0, Text("Error: {}"))
    ELSE ToolDid("", 0, ToolStr("Power BI Dataset Schema:", NoErr, <<>>, g.ret))

\* dax_syntax_tool(query)
dax_syntax_tool(sections, query) ==
    ToolDid("", 0, ToolStr("docs", NoErr, get_relevant_dax_docs(sections, query), <<>>))

ToolNames ==
    {"dax_syntax_tool", "schema_tool", "execute_dax_tool", "quick_stats_tool",
     "compare_tool"}

\* an outcome of the identity provider and of the endpoint for one query
Outcome(idp, kind, status, body) ==
    [idp |-> idp, resp |-> [kind |-> kind, status |-> status, body |-> body]]

OkRows == Outcome("access_token", "response", 200, "envelope_rows")

\* the remote outcomes the tools are run against
ToolOutcomes ==
    {Outcome("access_token", "response", 200, b) :
        b \in {"envelope_rows", "envelope_norows", "results_empty", "null", "list",
               "number", "results_null", "notjson"}}
    \cup {Outcome("access_token", "response", st, "error_full") : st \in {400, 503}}
    \cup {Outcome("access_token", "exception", 0, "timeout"),
          Outcome("error_description", "exception", 0, "timeout")}

\* the outcomes of the probes of one schema_tool call
SchemaOutcomes == {OkRows, Outcome("access_token", "response", 503, "error_full")}

\* the metric arguments of the model
MetricInputs ==
    { <<>>, <<"total">>, <<"delay">>, <<"TOTAL", "_", "FLIGHTS">>,
      <<"cancel", "led", "_", "count">>, <<"x", "avg", "_", "delay">>, <<"x">> }

\* the dimension arguments of the model
DimensionInputs ==
    { <<"airline">>, <<"Airline", "s">>, <<"origin">>, <<"destination">>,
      <<"month">> }

TopNs == {1, 5}

NoToolCall ==
    [tool |-> "none", arg |-> <<>>, words |-> {}, top_n |-> 0, out |-> OkRows,
     did |-> ToolDid("", 0, Text(""))]

ToolCall(tool, arg, words, top_n, out, did) ==
    [tool |-> tool, arg |-> arg, words |-> words, top_n |-> top_n, out |-> out,
     did |-> did]

\* one call of dax_syntax_tool
DaxSyntaxTool(Queries) ==
    /\ \E query \in Queries :
          LET l == load_dax_documentation(dax_docs_cache, doc_file, TRUE) IN
          /\ dax_docs_cache' = l.cache
          /\ tool_call' = ToolCall("dax_syntax_tool", <<>>, query, 0, OkRows,
                                   dax_syntax_tool(l.text, query))
    /\ UNCHANGED <<env, app_vars, token_call, exec_vars, schema_vars, doc_file, doc_call>>

\* one call of schema_tool
SchemaTool(Outs) ==
    /\ \E outs \in [DOMAIN Tables -> Outs] :
          LET g == get_cached_schema(schema_cache, schema_cache_time, now, env, outs,
                                     remote_keys)
          IN  /\ schema_cache' = g.cache
              /\ schema_cache_time' = g.cache_time
              /\ tool_call' = ToolCall("schema_tool", <<>>, {}, 0, outs[1], schema_tool(g))
    /\ UNCHANGED <<env, app_vars, token_call, exec_vars, doc_vars, now, active, pc, current_time,
                   schema, table_idx, probe_calls, probe_posts, ret_schema, raised,
                   n_calls, remote_keys>>

\* one call of execute_dax_tool
ExecuteDaxTool(Outs) ==
    /\ \E o \in Outs :
          tool_call' = ToolCall("execute_dax_tool", <<>>, {}, 0, o, execute_dax_tool(env, o))
    /\ UNCHANGED <<env, app_vars, token_call, exec_vars, schema_vars, doc_vars>>

\* one call of quick_stats_tool
QuickStatsTool(Metrics, Outs) ==
    /\ \E metric \in Metrics, o \in Outs :
          tool_call' = ToolCall("quick_stats_tool", metric, {}, 0, o,
                                quick_stats_tool(metric, env, o))
    /\ UNCHANGED <<env, app_vars, token_call, exec_vars, schema_vars, doc_vars>>

\* one call of compare_tool
CompareTool(Dimensions, Outs) ==
    /\ \E dimension \in Dimensions, top_n \in TopNs, o \in Outs :
          tool_call' = ToolCall("compare_tool", dimension, {}, top_n, o,
                                compare_tool(dimension, top_n, env, o))
    /\ UNCHANGED <<env, app_vars, token_call, exec_vars, schema_vars, doc_vars>>

(***************************************************************************)
(* The agent loop: create_react_agent(llm, tools) invoked by the question  *)
(* form.  The reasoning engine is free in what it emits: a tool request    *)
(* for any of the five tools, a response without tool request, or a        *)
(* failure of the call.  steps counts the nodes of the graph executed.     *)
(***************************************************************************)
\* the number of graph steps one invocation may take
recursion_limit == 7

Invocation(state, steps, messages, pending, response, fault) ==
    [state |-> state, steps |-> steps, messages |-> messages, pending |-> pending,
     response |-> response, fault |-> fault]

NoInvocation == Invocation("Idle", 0, <<>>, "", "none", "")

\* the arguments and remote outcomes of the tool calls the engine requests
AgentOutcomes ==
    {OkRows, Outcome("access_token", "response", 400, "error_full"),
     Outcome("access_token", "response", 200, "results_null")}

AgentMetrics == { <<"total">>, <<"x">> }

AgentDimensions == { <<"airline">>, <<"destination">> }

AgentQueries == { {"TOP"} }

\* agent_executor.invoke({"messages": [system prompt, question]})
AskQuestion ==
    /\ agent.state \in {"Idle", "FinalAnswerProduced", "Fault"}
    /\ agent' = Invocation("AwaitingToolDecision", 0, <<>>, "", "none", "")
    /\ UNCHANGED <<env, app_vars, token_call, tool_call, insight_call, exec_vars, schema_vars, doc_vars>>

\* the engine emits a response without tool request: the graph ends and the
\* form shows the content of the last message
EngineAnswers ==
    /\ agent.state = "AwaitingToolDecision"
    /\ agent' = [agent EXCEPT !.state = "FinalAnswerProduced", !.steps = @ + 1,
                              !.response = "answer"]
    /\ UNCHANGED <<env, app_vars, token_call, tool_call, insight_call, exec_vars, schema_vars, doc_vars>>

\* the engine requests a tool: the tool node comes next, unless the steps
\* left do not allow a tool step and another engine step; then the graph
\* either ends with its own apology message or raises GraphRecursionError,
\* which the form catches and shows as "Error: ..."
EngineRequestsTool ==
    /\ agent.state = "AwaitingToolDecision"
    /\ \E tool \in ToolNames :
          IF agent.steps + 2 >= recursion_limit
          THEN \E apology \in BOOLEAN :
                  agent' = IF apology
                           THEN [agent EXCEPT !.state = "FinalAnswerProduced",
                                              !.steps = @ + 1, !.response = "tools"]
                           ELSE [agent EXCEPT !.state = "Fault", !.steps = @ + 1,
                                              !.response = "tools",
                                              !.fault = "GraphRecursionError"]
          ELSE agent' = [agent EXCEPT !.state = "ToolInvoked", !.steps = @ + 1,
                                      !.pending = tool, !.response = "tools"]
    /\ UNCHANGED <<env, app_vars, token_call, tool_call, insight_call, exec_vars, schema_vars, doc_vars>>

\* the call of the chat model raises: invoke raises, the form shows "Error: ..."
EngineFails ==
    /\ agent.state = "AwaitingToolDecision"
    /\ agent' = [agent EXCEPT !.state = "Fault", !.steps = @ + 1,
                              !.response = "none", !.fault = "engine"]
    /\ UNCHANGED <<env, app_vars, token_call, tool_call, insight_call, exec_vars, schema_vars, doc_vars>>

\* the tool node runs the requested tool and appends its result to the
\* transcript; an exception that leaves the tool is either turned into an
\* error message of the transcript or raised out of invoke
RunTool ==
    /\ agent.state = "ToolInvoked"
    /\ \/ agent.pending = "dax_syntax_tool" /\ DaxSyntaxTool(AgentQueries)
       \/ agent.pending = "schema_tool" /\ SchemaTool({OkRows})
       \/ agent.pending = "execute_dax_tool" /\ ExecuteDaxTool(AgentOutcomes)
       \/ agent.pending = "quick_stats_tool" /\ QuickStatsTool(AgentMetrics, AgentOutcomes)
       \/ agent.pending = "compare_tool" /\ CompareTool(AgentDimensions, AgentOutcomes)
    /\ \E fed_back \in IF tool_call'.did.ret.raised = "" THEN {TRUE} ELSE BOOLEAN :
          agent' = [agent EXCEPT
                       !.state = IF fed_back THEN "AwaitingToolDecision" ELSE "Fault",
                       !.steps = @ + 1,
                       !.messages = Append(@, agent.pending),
                       !.pending = "",
                       !.fault = IF fed_back THEN "" ELSE tool_call'.did.ret.raised]
    /\ UNCHANGED insight_call

(***************************************************************************)
(* Fast metrics: powerbi.get_auto_insights_from_agent and the Generate     *)
(* Insights handler of powerbi_new.                                        *)
(*                                                                         *)
(* A filter context maps a column to {values, kind}; a value is its JSON   *)
(* text.  The predicate the code generates is a sequence of conditions     *)
(* [col, op, lits], joined by " && "; a literal is the text written into   *)
(* the query and whether it was put in double quotes.                      *)
(***************************************************************************)
Columns == {"AIRLINE", "MONTH", "DATE"}

\* isinstance(v, str): airline codes and ISO timestamps are JSON strings,
\* month numbers are JSON numbers
is_str(col) == col \in {"AIRLINE", "DATE"}

Info(values, kind) == [values |-> values, kind |-> kind]

\* the filters a column can carry
FilterChoices(col) ==
    CASE col = "AIRLINE" -> {Info(<<>>, "multi"), Info(<<"AA">>, "single"),
                             Info(<<"AA", "DL">>, "multi")}
      [] col = "MONTH" -> {Info(<<"1">>, "single")}
      [] OTHER -> {Info(<<"d1", "d3">>, "date-range"), Info(<<"d2", "d3">>, "date-range")}

\* the filter contexts of the model
Contexts ==
    UNION {{f \in [S -> UNION {FilterChoices(c) : c \in Columns}] :
               \A c \in S : f[c] \in FilterChoices(c)} : S \in SUBSET Columns}

\* the filter contexts the insights panel is shown with
PanelContexts ==
    {c \in Contexts : DOMAIN c \in {{"AIRLINE"}, {"DATE"}, {"AIRLINE", "MONTH"}}
                      /\ \A k \in DOMAIN c : c[k].values # <<>>
                      /\ ("DATE" \in DOMAIN c => c["DATE"].values[1] = "d1")}

Lit(col, v) == [text |-> v, quoted |-> is_str(col)]

Cond(col, op, lits) == [col |-> col, op |-> op, lits |-> lits]

\* the columns of a context in the order the dict is iterated
ColumnOrder == <<"AIRLINE", "MONTH", "DATE">>

\* st.session_state.selected_airline / selected_month: set to "All" at
\* start and assigned nowhere else
selected_airline == "All"

selected_month == "All"

\* powerbi.get_auto_insights_from_agent: filter_conditions, built from the
\* two session selections; the context argument is not read
filter_conditions(context) ==
    (IF selected_airline # "All"
     THEN <<Cond("AIRLINE", "=", <<[text |-> selected_airline, quoted |-> TRUE]>>)>>
     ELSE <<>>)
    \o (IF selected_month # "All"
        THEN <<Cond("MONTH", "=", <<[text |-> selected_month, quoted |-> FALSE]>>)>>
        ELSE <<>>)

\* powerbi_new, Generate Insights: one `'{col}' IN {...}` condition for every
\* filter of the context that has values
filter_conditions_new(detected_filters) ==
    LET one(col) ==
            IF col \notin DOMAIN detected_filters \/ detected_filters[col].values = <<>>
            THEN <<>>
            ELSE <<Cond(col, "IN", [i \in DOMAIN detected_filters[col].values |->
                                        Lit(col, detected_filters[col].values[i])])>>
    IN  one(ColumnOrder[1]) \o one(ColumnOrder[2]) \o one(ColumnOrder[3])

\* the table expression of the queries: FILTER('flights', clause) or 'flights'
filtered_table(conds) == [filtered |-> conds # <<>>, clause |-> conds]

\* what the endpoint answers to one statistic query: the outcome of the call
\* and, when rows come back, the value of the first row
StatOutcome(out, val) == [out |-> out, val |-> val]

StatOutcomes ==
    {StatOutcome(OkRows, "number"), StatOutcome(OkRows, "null"),
     StatOutcome(Outcome("access_token", "response", 503, "error_full"), "number"),
     StatOutcome(Outcome("access_token", "response", 200, "results_empty"), "number")}

Metrics == {"total_flights", "avg_delay", "cancelled"}

\* `if not err and result:` and the try block around the navigation of the
\* rows, `except: pass`: the value found, or "absent"
stat_value(e, o) ==
    LET r == execute_dax_query(e, o.out.idp, o.out.resp) IN
    IF Truthy(r.err) \/ r.result = None \/ ~json_truthy(r.result) THEN "absent"
    ELSE LET nav == navigate_rows(r.result) IN
         IF nav.exc # "" \/ nav.rows # "rows" THEN "absent" ELSE o.val

\* stats['avg_delay'] = round(val, 1) if val else 0
avg_delay_value(v) == IF v = "absent" THEN "absent" ELSE IF v = "null" THEN "zero" ELSE v

\* the f-string of stats_summary: the exception it raises, "" when none.
\* `{total:,}` with total = stats.get('total_flights', 0) and
\* `{stats.get('cancelled', 'N/A'):,}`
stats_summary_raises(stats) ==
    IF stats["total_flights"] = "null" THEN "TypeError"
    ELSE IF stats["cancelled"] = "absent" THEN "ValueError"
    ELSE IF stats["cancelled"] = "null" THEN "TypeError"
    ELSE ""

InsightText(error, tmpl, exc) == [error |-> error, tmpl |-> tmpl, exc |-> exc]

\* powerbi.get_auto_insights_from_agent(prompt, context)
get_auto_insights_from_agent(context, e, outs, llm) ==
    LET conds == filter_conditions(context)
        stats == [m \in Metrics |->
                     IF m = "avg_delay" THEN avg_delay_value(stat_value(e, outs[m]))
                     ELSE stat_value(e, outs[m])]
        exc == stats_summary_raises(stats)
    IN  [table |-> filtered_table(conds), stats |-> stats, queries |-> 3,
         result |-> IF exc # ""
                    THEN InsightText(TRUE, "Could not generate insights: {}", exc)
                    ELSE IF llm = "exception"
                    THEN InsightText(TRUE, "Could not generate insights: {}", "engine")
                    ELSE InsightText(FALSE, "content", "")]

\* powerbi_new: the value of stats['total'] after the one query
total_value_new(e, o) ==
    LET r == execute_dax_query_new(e, o.out.idp, o.out.resp) IN
    IF Truthy(r.err) \/ r.result = None \/ ~json_truthy(r.result) THEN "absent"
    ELSE IF r.result = "envelope_rows" THEN o.val
    ELSE "zero"

\* powerbi_new, the Generate Insights button
generate_insights_new(detected_filters, e, o) ==
    IF DOMAIN detected_filters = {}
    THEN [table |-> filtered_table(<<>>),
          stats |-> [m \in Metrics |-> "absent"], queries |-> 0,
          result |-> InsightText(FALSE, "No filters detected yet", "")]
    ELSE [table |-> filtered_table(filter_conditions_new(detected_filters)),
          stats |-> [m \in Metrics |->
                        IF m = "total_flights" THEN total_value_new(e, o) ELSE "absent"],
          queries |-> 1,
          result |-> InsightText(FALSE, "Generated insight based on {} flights", "")]

NoInsightCall ==
    [fn |-> "none", context |-> EmptyMap, outs |-> [m \in Metrics |-> StatOutcome(OkRows, "number")],
     llm |-> "content", did |-> generate_insights_new(EmptyMap, [n \in EnvNames |-> TRUE],
                                                      StatOutcome(OkRows, "number"))]

\* the insights panel calls get_auto_insights_from_agent for the current
\* filter context
GetAutoInsightsFromAgent ==
    /\ \E context \in PanelContexts, outs \in [Metrics -> StatOutcomes],
          llm \in {"content", "exception"} :
          insight_call' = [fn |-> "powerbi", context |-> context, outs |-> outs,
                           llm |-> llm,
                           did |-> get_auto_insights_from_agent(context, env, outs, llm)]
    /\ UNCHANGED <<env, app_vars, token_call, tool_call, agent, exec_vars, schema_vars, doc_vars>>

\* the Generate Insights button of powerbi_new is pressed
GenerateInsightsNew ==
    /\ \E detected_filters \in Contexts, o \in StatOutcomes :
          insight_call' = [fn |-> "powerbi_new", context |-> detected_filters,
                           outs |-> [m \in Metrics |-> o], llm |-> "content",
                           did |-> generate_insights_new(detected_filters, env, o)]
    /\ UNCHANGED <<env, app_vars, token_call, tool_call, agent, exec_vars, schema_vars, doc_vars>>

(***************************************************************************)
(* The rows of a comparison.  compare_tool sends                           *)
(* EVALUATE TOPN(top_n, ADDCOLUMNS(VALUES(dim), "Total Flights", ...),     *)
(* [Total Flights], DESC) and hands the rows of the response to            *)
(* format_dax_results, which dumps them as they came.  The dataset         *)
(* evaluates TOPN: every row whose measure is among the top_n highest,     *)
(* all rows tied at the last place included, in no guaranteed order (the   *)
(* query has no ORDER BY).                                                 *)
(***************************************************************************)
DimensionValues == {"AA", "DL", "UA"}
MaxFlights == 2
Measures == [DimensionValues -> 1..MaxFlights]

\* TOPN(n, table, [Total Flights], DESC) as the dataset evaluates it
TOPN(n, measure) ==
    {v \in DOMAIN measure :
        Cardinality({w \in DOMAIN measure : measure[w] > measure[v]}) < n}

\* the orders in which an EVALUATE without ORDER BY may list a set of rows
RowOrders(S) ==
    {rows \in [1..Cardinality(S) -> S] :
        \A i, j \in 1..Cardinality(S) : i # j => rows[i] # rows[j]}

\* the rows compare_tool puts in its answer: those of the response, as listed
compare_tool_rows(response_rows) == response_rows

NoComparison == [dimension |-> <<>>, top_n |-> 0, measure |-> <<>>, rows |-> <<>>]

\* one call of compare_tool answered with rows by the dataset
CompareRows ==
    /\ \E dimension \in {<<"airline">>, <<"origin">>, <<"month">>},
          top_n \in TopNs, measure \in Measures :
          LET did == compare_tool(dimension, top_n, env, OkRows) IN
          /\ did.ret.tmpl = "rows"
          /\ tool_call' = ToolCall("compare_tool", dimension, {}, top_n, OkRows, did)
          /\ \E response_rows \in RowOrders(TOPN(top_n, measure)) :
                compare_rows' = [dimension |-> dimension, top_n |-> top_n,
                                 measure |-> measure,
                                 rows |-> compare_tool_rows(response_rows)]
    /\ UNCHANGED <<env, panel, startup, shared, token_call, agent, insight_call, exec_vars, schema_vars, doc_vars>>

(***************************************************************************)
(* The insights panel of powerbi.py: InsightsCache and auto_insights_panel *)
(* inside one Streamlit session.  A filters dict is the sequence of its    *)
(* <<column, info>> items in the order json.loads met the keys; two dicts  *)
(* are equal when they hold the same items.  Time is counted in half       *)
(* seconds.                                                                *)
(***************************************************************************)
Item(col) ==
    CASE col = "AIRLINE" -> <<col, Info(<<"AA">>, "single")>>
      [] col = "MONTH" -> <<col, Info(<<"1">>, "single")>>
      [] OTHER -> <<col, Info(<<"d1", "d3">>, "date-range")>>

\* the filters dicts the filter reader or the text area can carry
PanelFilters ==
    {<<Item("AIRLINE")>>,
     <<Item("AIRLINE"), Item("DATE")>>, <<Item("DATE"), Item("AIRLINE")>>}

Payload(kind, filters) == [kind |-> kind, filters |-> filters]

\* what ?pbi_filters= or the text area holds: nothing, text that does not
\* decode, or the JSON of a filters dict
Payloads ==
    {Payload("absent", <<>>), Payload("invalid", <<>>)}
    \cup {Payload("json", f) : f \in PanelFilters \cup {<<>>}}

Items(filters) == {filters[i] : i \in DOMAIN filters}

\* dict == dict
dict_eq(f, g) == Items(f) = Items(g)

\* the dict as the mapping the fast-metrics code receives
AsMap(filters) ==
    [col \in {it[1] : it \in Items(filters)} |->
        (CHOOSE it \in Items(filters) : it[1] = col)[2]]

\* the order of the keys under sort_keys=True
KeyOrder == <<"AIRLINE", "DATE", "MONTH">>

json_dumps_insertion_order(filters) == filters

\* json.dumps(filters, sort_keys=True): the items by ascending key
json_dumps(filters) ==
    LET of(k) == SelectSeq(filters, LAMBDA it : it[1] = k) IN
    of(KeyOrder[1]) \o of(KeyOrder[2]) \o of(KeyOrder[3])

\* hashlib.md5(text).hexdigest(): one digest per text
md5(text) == [hexdigest |-> text]

Context(filters) == [filters |-> filters]

\* InsightsCache.get_context_hash(context): <<>> is None
get_context_hash(context) ==
    IF context = <<>> THEN <<>>
    ELSE <<md5(json_dumps(context[1].filters))>>

debounce_seconds == 3

\* InsightsCache.should_generate(context, current_time)
should_generate(self, context, t) ==
    IF t - self.last_trigger < debounce_seconds THEN FALSE
    ELSE LET context_hash == get_context_hash(context) IN
         IF context_hash = <<>> THEN FALSE
         ELSE context_hash[1] \notin DOMAIN self.cache

\* InsightsCache.get_cached(context): <<>> is None
get_cached(self, context) ==
    LET context_hash == get_context_hash(context) IN
    IF context_hash # <<>> /\ context_hash[1] \in DOMAIN self.cache
    THEN <<self.cache[context_hash[1]]>>
    ELSE <<>>

Entry(insights, t) == [insights |-> insights, timestamp |-> t]

store_keep_first(self, context, insights, t) ==
    LET context_hash == get_context_hash(context) IN
    [cache |-> IF context_hash # <<>> /\ context_hash[1] \notin DOMAIN self.cache
               THEN Put(self.cache, context_hash[1], Entry(insights, t))
               ELSE self.cache,
     last_trigger |-> t]

\* InsightsCache.store(context, insights) at time t
store(self, context, insights, t) ==
    LET context_hash == get_context_hash(context) IN
    [cache |-> IF context_hash # <<>>
               THEN Put(self.cache, context_hash[1], Entry(insights, t))
               ELSE self.cache,
     last_trigger |-> t]

\* InsightsCache()
NewInsightsCache == [cache |-> EmptyMap, last_trigger |-> 0]

NoInsights == InsightText(FALSE, "", "")

Shown(branch, insights) == [branch |-> branch, insights |-> insights]

StartTime == 4
MaxPanelTime == 7
MaxRuns == 4
MaxGenerations == 2
HistoryLimit == 10

\* the session state after the initialisation at import, before any run;
\* stored logs the store calls: per set of items, the insights last stored
NewSession ==
    [url |-> Payload("absent", <<>>),
     filter_context |-> <<>>,
     last_url_filters |-> <<>>,
     force_regenerate |-> FALSE,
     selected_date_range |-> <<>>,
     insights_cache |-> NewInsightsCache,
     insights_history |-> <<>>,
     clock |-> StartTime,
     runs |-> 0,
     generated |-> 0,
     stored |-> EmptyMap,
     shown |-> Shown("none", NoInsights)]

\* get_filters_from_url()
get_filters_from_url(url) == IF url.kind = "json" THEN url.filters ELSE <<>>

\* the head of auto_insights_panel: a changed URL payload becomes the
\* filter context and forces a regeneration
url_step(p) ==
    LET url_filters == get_filters_from_url(p.url) IN
    IF url_filters # <<>>
       /\ (p.last_url_filters = <<>> \/ ~dict_eq(p.last_url_filters[1], url_filters))
    THEN [p EXCEPT !.filter_context = <<Context(url_filters)>>,
                   !.last_url_filters = <<url_filters>>,
                   !.force_regenerate = TRUE,
                   !.selected_date_range =
                       IF \E it \in Items(url_filters) : it[1] = "DATE"
                       THEN AsMap(url_filters)["DATE"].values
                       ELSE @]
    ELSE p

\* the two generating branches: get_auto_insights_from_agent, cache.store,
\* the entry put in front of insights_history
generate(p, e, outs, llm) ==
    LET current_context == p.filter_context
        insights == get_auto_insights_from_agent(
                        AsMap(current_context[1].filters), e, outs, llm).result
        history == <<[timestamp |-> p.clock, context |-> current_context[1],
                      insights |-> insights]>> \o p.insights_history
    IN  [p EXCEPT !.insights_cache = store(@, current_context, insights, p.clock),
                  !.stored = Put(@, Items(current_context[1].filters), insights),
                  !.generated = @ + 1,
                  !.shown = Shown("generated", insights),
                  !.insights_history =
                      SubSeq(history, 1, IF Len(history) < HistoryLimit
                                         THEN Len(history) ELSE HistoryLimit)]

\* the main insights container
main_container(p, e, outs, llm) ==
    LET current_context == p.filter_context
        force_regen == p.force_regenerate
    IN  IF force_regen /\ current_context # <<>>
        THEN [generate(p, e, outs, llm) EXCEPT !.force_regenerate = FALSE]
        ELSE IF current_context # <<>>
        THEN LET cached == get_cached(p.insights_cache, current_context) IN
             IF cached # <<>>
             THEN [p EXCEPT !.shown = Shown("cached", cached[1].insights)]
             ELSE generate(p, e, outs, llm)
        ELSE [p EXCEPT !.shown = Shown("info", NoInsights)]

\* `st.session_state.get('filter_context', {}).get('filters', {})` while the
\* filter context is still None
status_raises(p) == p.filter_context = <<>>

\* one run of the script through auto_insights_panel, no button pressed
script_run(p, e, outs, llm) ==
    LET p1 == [url_step(p) EXCEPT !.runs = @ + 1] IN
    IF status_raises(p1) THEN [p1 EXCEPT !.shown = Shown("AttributeError", NoInsights)]
    ELSE main_container(p1, e, outs, llm)

\* the run in which Apply Manual Filters is pressed with the text area
\* holding manual_json, and the run st.rerun() starts
manual_run(p, manual_json, e, outs, llm) ==
    LET p1 == [url_step(p) EXCEPT !.runs = @ + 1] IN
    IF status_raises(p1) THEN [p1 EXCEPT !.shown = Shown("AttributeError", NoInsights)]
    ELSE IF manual_json.kind = "invalid" THEN main_container(p1, e, outs, llm)
    ELSE script_run([p1 EXCEPT !.filter_context = <<Context(manual_json.filters)>>,
                               !.force_regenerate = TRUE], e, outs, llm)

\* what the dataset and the engine do during one generation
PanelOutcomes == {[m \in Metrics |-> StatOutcome(OkRows, "number")]}

\* the runs and generations of a session are capped
PanelBounded ==
    /\ panel'.runs <= MaxRuns
    /\ panel'.generated <= MaxGenerations

PanelIdle == UNCHANGED <<env, compare_rows, startup, shared, ext_core_vars, exec_vars, schema_vars, doc_vars>>

\* time passes
PanelTick ==
    /\ panel.clock < MaxPanelTime
    /\ panel' = [panel EXCEPT !.clock = @ + 1]
    /\ PanelIdle

\* the filter reader writes ?pbi_filters= and the script runs
UrlFilters ==
    /\ \E url \in Payloads, outs \in PanelOutcomes, llm \in {"content", "exception"} :
          panel' = script_run([panel EXCEPT !.url = url], env, outs, llm)
    /\ PanelBounded
    /\ PanelIdle

\* any other interaction reruns the script
Rerun ==
    /\ \E outs \in PanelOutcomes, llm \in {"content", "exception"} :
          panel' = script_run(panel, env, outs, llm)
    /\ PanelBounded
    /\ PanelIdle

\* Apply Manual Filters is pressed; the button exists once a run got past
\* the filter status
ApplyManualFilters ==
    /\ panel.shown.branch \notin {"none", "AttributeError"}
    /\ \E manual_json \in Payloads, outs \in PanelOutcomes,
          llm \in {"content", "exception"} :
          panel' = manual_run(panel, manual_json, env, outs, llm)
    /\ PanelBounded
    /\ PanelIdle

(***************************************************************************)
(* Start of an application script: powerbi.py or powerbi_new.py.  The      *)
(* statements run in file order: the AzureOpenAI client, in powerbi.py     *)
(* the agent of create_dax_agent(), then the missing_config check.  What   *)
(* the client libraries do when a setting they are given is None is        *)
(* theirs to decide: the constructor raises or returns an object.          *)
(***************************************************************************)
Apps == {"powerbi", "powerbi_new"}

AadNames == {"AAD_TENANT_ID", "AAD_CLIENT_ID", "AAD_CLIENT_SECRET"}

IdNames == {"POWERBI_WORKSPACE_ID", "POWERBI_REPORT_ID", "POWERBI_DATASET_ID"}

LlmNames == {"AZURE_OPENAI_API_KEY", "AZURE_OPENAI_API_VERSION",
             "AZURE_OPENAI_ENDPOINT", "AZURE_OPENAI_DEPLOYMENT_NAME"}

StartupNames == AadNames \cup IdNames \cup LlmNames

\* the settings handed to AzureOpenAI(...) and AzureChatOpenAI(...)
ClientNames == LlmNames \ {"AZURE_OPENAI_DEPLOYMENT_NAME"}

\* the ids the missing_config check of an application reads
CheckedIds(app) ==
    IF app = "powerbi" THEN {"POWERBI_WORKSPACE_ID", "POWERBI_REPORT_ID"}
    ELSE IdNames

\* all([...]) over the values of os.getenv
all_set(config, names) == \A n \in names : config[n]

\* missing_config after the two tests
missing_config(app, config) ==
    (IF ~all_set(config, AadNames) THEN <<"Azure AD credentials">> ELSE <<>>)
    \o (IF ~all_set(config, CheckedIds(app)) THEN <<"Power BI IDs">> ELSE <<>>)

NotStarted ==
    [app |-> "none", config |-> [n \in StartupNames |-> TRUE], at |-> "not started",
     client |-> FALSE, agent_executor |-> FALSE, error |-> <<>>, remote_calls |-> 0]

\* the script is started in a process with some configuration
Launch ==
    /\ startup.at = "not started"
    /\ \E app \in Apps, config \in [StartupNames -> BOOLEAN] :
          startup' = [NotStarted EXCEPT !.app = app, !.config = config, !.at = "client"]
    /\ UNCHANGED <<env, compare_rows, panel, shared, ext_core_vars, exec_vars, schema_vars, doc_vars>>

\* client = AzureOpenAI(api_key=..., api_version=..., azure_endpoint=...)
BuildClient ==
    /\ startup.at = "client"
    /\ \/ startup' = [startup EXCEPT !.client = TRUE,
                         !.at = IF startup.app = "powerbi" THEN "agent" ELSE "check"]
       \/ /\ ~all_set(startup.config, ClientNames)
          /\ startup' = [startup EXCEPT !.at = "crashed"]
    /\ UNCHANGED <<env, compare_rows, panel, shared, ext_core_vars, exec_vars, schema_vars, doc_vars>>

\* agent_executor, system_prompt = create_dax_agent()
BuildAgent ==
    /\ startup.at = "agent"
    /\ \/ startup' = [startup EXCEPT !.agent_executor = TRUE, !.at = "check"]
       \/ /\ ~all_set(startup.config, ClientNames)
          /\ startup' = [startup EXCEPT !.at = "crashed"]
    /\ UNCHANGED <<env, compare_rows, panel, shared, ext_core_vars, exec_vars, schema_vars, doc_vars>>

\* the missing_config check: st.error and st.stop(), or the page is built
ConfigCheck ==
    /\ startup.at = "check"
    /\ LET missing == missing_config(startup.app, startup.config) IN
       startup' = [startup EXCEPT !.error = missing,
                       !.at = IF missing # <<>> THEN "stopped" ELSE "running"]
    /\ UNCHANGED <<env, compare_rows, panel, shared, ext_core_vars, exec_vars, schema_vars, doc_vars>>

(***************************************************************************)
(* get_cached_schema called by the threads of several sessions.  The       *)
(* dicts are objects: heap[id] is the content of dict id, the globals      *)
(* _schema_cache and the locals hold ids.  A thread switch can fall        *)
(* between any two statements that read or write a global or a dict.       *)
(* built logs the dicts discover_table_columns has returned, published     *)
(* the content each dict had when it was assigned to _schema_cache.        *)
(***************************************************************************)
reuse_cached_dict(heap, cache) ==
    IF cache # <<>> THEN [heap |-> heap, id |-> cache[1]]
    ELSE [heap |-> Append(heap, EmptyMap), id |-> Len(heap) + 1]

\* `schema = {}`: a new dict
new_dict(heap, cache) == [heap |-> Append(heap, EmptyMap), id |-> Len(heap) + 1]

IdleThread ==
    [at |-> "idle", current_time |-> 0, schema |-> 0, table_idx |-> 1, ret |-> <<>>,
     read |-> <<>>, probe |-> OkRows]

NothingShared ==
    [heap |-> <<>>, cache |-> <<>>, cache_time |-> <<>>, clock |-> 0, calls |-> 0,
     built |-> {}, published |-> EmptyMap, th |-> [t \in Threads |-> IdleThread]]

MaxSharedCalls == 3

\* what the probes of one refresh get while sessions share the cache: the
\* dataset answers all of them, or none
SharedProbes ==
    {Outcome("access_token", "response", 200, "envelope_rows"),
     Outcome("access_token", "response", 503, "error_full")}

SharedIdle ==
    UNCHANGED <<env, compare_rows, panel, startup, ext_core_vars, exec_vars,
                schema_vars, doc_vars>>

\* the refresh interval passes
SharedTick ==
    /\ shared.clock = 0
    /\ shared' = [shared EXCEPT !.clock = SCHEMA_TTL]
    /\ SharedIdle

\* current_time = time.time()
CallGetCachedSchema(t) ==
    /\ shared.th[t].at = "idle"
    /\ shared.calls < MaxSharedCalls
    /\ shared' = [shared EXCEPT !.calls = @ + 1,
                                !.th[t] = [IdleThread EXCEPT !.at = "test",
                                               !.current_time = shared.clock]]
    /\ SharedIdle

\* the test of the two globals; on a miss discover_table_columns starts
\* with `schema = {}`
TestCache(t) ==
    /\ shared.th[t].at = "test"
    /\ IF cache_fresh(shared.cache, shared.cache_time, shared.th[t].current_time)
       THEN shared' = [shared EXCEPT !.th[t].at = "return"]
       ELSE LET d == new_dict(shared.heap, shared.cache) IN
            \E o \in SharedProbes :
                shared' = [shared EXCEPT !.heap = d.heap,
                                         !.th[t].at = "discover",
                                         !.th[t].schema = d.id,
                                         !.th[t].table_idx = 1,
                                         !.th[t].probe = o]
    /\ SharedIdle

\* one iteration of the table loop: the probe and `schema[table] = ...`
FillTable(t) ==
    /\ shared.th[t].at = "discover"
    /\ shared.th[t].table_idx <= Len(Tables)
    /\ LET o == shared.th[t].probe IN
          LET id == shared.th[t].schema
              r == probe_query(env, o.idp, o.resp)
              b == loop_body(shared.heap[id], Tables[shared.th[t].table_idx], r,
                             remote_keys)
          IN  shared' = [shared EXCEPT !.heap[id] = b.schema,
                                       !.th[t].table_idx = next_table(@, r)]
    /\ SharedIdle

\* `return schema` and `_schema_cache = discover_table_columns()`
AssignCache(t) ==
    /\ shared.th[t].at = "discover"
    /\ shared.th[t].table_idx > Len(Tables)
    /\ LET id == shared.th[t].schema IN
       shared' = [shared EXCEPT !.built = @ \cup {id},
                                !.cache = <<id>>,
                                !.published = Put(@, id, shared.heap[id]),
                                !.th[t].at = "set_time"]
    /\ SharedIdle

\* `_schema_cache_time = current_time`
AssignCacheTime(t) ==
    /\ shared.th[t].at = "set_time"
    /\ shared' = [shared EXCEPT !.cache_time = <<shared.th[t].current_time>>,
                                !.th[t].at = "return"]
    /\ SharedIdle

\* `return _schema_cache`
ReturnCache(t) ==
    /\ shared.th[t].at = "return"
    /\ shared' = [shared EXCEPT !.th[t].ret = shared.cache, !.th[t].at = "format"]
    /\ SharedIdle

\* schema_tool reads the returned dict
FormatSchema(t) ==
    /\ shared.th[t].at = "format"
    /\ shared' = [shared EXCEPT !.th[t].read = <<shared.heap[shared.th[t].ret[1]]>>,
                                !.th[t].at = "idle"]
    /\ SharedIdle

(***************************************************************************)
(* Initial states and specifications                                       *)
(***************************************************************************)
AllSet == [n \in EnvNames |-> TRUE]

ExecIdle == exec_call = NoCall /\ token_call = NoTokenCall

\* the components around the three above, before any call
ExtIdle ==
    /\ tool_call = NoToolCall
    /\ agent = NoInvocation
    /\ insight_call = NoInsightCall
    /\ compare_rows = NoComparison
    /\ panel = NewSession
    /\ startup = NotStarted
    /\ shared = NothingShared

SchemaIdle ==
    /\ now = 0
    /\ schema_cache = <<>>
    /\ schema_cache_time = <<>>
    /\ pc = [t \in Threads |-> "idle"]
    /\ current_time = [t \in Threads |-> 0]
    /\ schema = [t \in Threads |-> EmptyMap]
    /\ table_idx = [t \in Threads |-> 1]
    /\ probe_calls = [t \in Threads |-> NoCounts]
    /\ probe_posts = [t \in Threads |-> 0]
    /\ ret_schema = [t \in Threads |-> <<>>]
    /\ raised = [t \in Threads |-> FALSE]
    /\ n_calls = 0

DocsIdle ==
    /\ dax_docs_cache = <<>>
    /\ doc_call = NoDocCall

PoolSet == {SectionPool[i] : i \in DOMAIN SectionPool}

\* the documentation files of the model: any selection of pool sections in
\* file order, possibly with the first section repeated at the end
Corpora ==
    LET picks == {SelectSeq(SectionPool, LAMBDA x : x \in S) : S \in SUBSET PoolSet}
        repeated == {c \o <<c[1]>> : c \in {d \in picks : d # <<>>}}
    IN  {c \in picks \cup repeated : Len(c) <= MaxSections}

\* the Query Executor alone, under every configuration
InitExec ==
    /\ env \in Envs
    /\ ExecIdle
    /\ SchemaIdle
    /\ active = {}
    /\ remote_keys \in {CHOOSE k \in KeyLists : TRUE}
    /\ DocsIdle
    /\ ExtIdle
    /\ doc_file = <<>>

NextExec == ExecuteDaxQuery \/ ExecuteDaxQueryNew

SpecExec == InitExec /\ [][NextExec]_vars

\* the Credential Provider alone, under every configuration
NextToken == GetPowerbiAccessToken

SpecToken == InitExec /\ [][NextToken]_vars

\* the words of the queries given to dax_syntax_tool
ToolQueries == SUBSET {"TOP", "summary"}

\* the five agent tools, called in any order with any argument
InitTools ==
    /\ env \in {AllSet, [AllSet EXCEPT !["AAD_CLIENT_SECRET"] = FALSE]}
    /\ ExecIdle
    /\ SchemaIdle
    /\ active = {}
    /\ remote_keys \in {CHOOSE k \in KeyLists : TRUE}
    /\ DocsIdle
    /\ ExtIdle
    /\ doc_file = <<SectionPool>>

NextTools ==
    \/ DaxSyntaxTool(ToolQueries) /\ UNCHANGED <<agent, insight_call>>
    \/ SchemaTool(SchemaOutcomes) /\ UNCHANGED <<agent, insight_call>>
    \/ ExecuteDaxTool(ToolOutcomes) /\ UNCHANGED <<agent, insight_call>>
    \/ QuickStatsTool(MetricInputs, ToolOutcomes) /\ UNCHANGED <<agent, insight_call>>
    \/ CompareTool(DimensionInputs, ToolOutcomes) /\ UNCHANGED <<agent, insight_call>>

SpecTools == InitTools /\ [][NextTools]_vars

\* the agent loop over questions asked one after the other
InitAgent ==
    /\ env = AllSet
    /\ ExecIdle
    /\ SchemaIdle
    /\ active = {}
    /\ remote_keys \in {CHOOSE k \in KeyLists : TRUE}
    /\ DocsIdle
    /\ ExtIdle
    /\ doc_file = <<SectionPool>>

NextAgent ==
    \/ AskQuestion
    \/ EngineAnswers
    \/ EngineRequestsTool
    \/ EngineFails
    \/ RunTool

SpecAgent == InitAgent /\ [][NextAgent]_vars

\* the fast metrics of the two dashboards
\* the sessions' threads in get_cached_schema
NextShared ==
    \/ SharedTick
    \/ \E t \in Threads : CallGetCachedSchema(t)
    \/ \E t \in Threads : TestCache(t)
    \/ \E t \in Threads : FillTable(t)
    \/ \E t \in Threads : AssignCache(t)
    \/ \E t \in Threads : AssignCacheTime(t)
    \/ \E t \in Threads : ReturnCache(t)
    \/ \E t \in Threads : FormatSchema(t)
SpecShared == InitAgent /\ [][NextShared]_vars

\* the start of an application
NextStartup == Launch \/ BuildClient \/ BuildAgent \/ ConfigCheck
SpecStartup == InitAgent /\ [][NextStartup]_vars

\* one session in front of the insights panel
NextPanel == PanelTick \/ UrlFilters \/ Rerun \/ ApplyManualFilters
SpecPanel == InitAgent /\ [][NextPanel]_vars

\* comparisons answered by the dataset
NextCompare == CompareRows
SpecCompare == InitAgent /\ [][NextCompare]_vars

NextInsights == GetAutoInsightsFromAgent \/ GenerateInsightsNew

SpecInsights == InitAgent /\ [][NextInsights]_vars

\* Schema Discovery and its cache, one calling thread
InitSchema ==
    /\ env \in SchemaEnvs
    /\ ExecIdle
    /\ SchemaIdle
    /\ active = {"t1"}
    /\ remote_keys \in KeyLists
    /\ DocsIdle
    /\ ExtIdle
    /\ doc_file = <<>>

NextSchema ==
    \/ Tick
    \/ \E t \in active : GetCachedSchema(t)
    \/ \E t \in active : ProbeTable(t)
    \/ \E t \in active : PublishSchema(t)

SpecSchema == InitSchema /\ [][NextSchema]_vars

\* the Documentation Retriever over every documentation file of the model
InitDocs ==
    /\ env = AllSet
    /\ ExecIdle
    /\ SchemaIdle
    /\ active = {}
    /\ remote_keys \in {CHOOSE k \in KeyLists : TRUE}
    /\ doc_file \in {<<>>} \cup {<<c>> : c \in Corpora}
    /\ DocsIdle
    /\ ExtIdle

NextDocs == GetRelevantDaxDocs

SpecDocs == InitDocs /\ [][NextDocs]_vars

(***************************************************************************)
(* Query Executor: status-code mapping and retries                         *)
(***************************************************************************)
\* the error kinds of the taxonomy, read off the message the code builds
ErrorKind(err) ==
    CASE err.tmpl = "DAX query error ({}): {}" -> "QueryError"
      [] err.tmpl \in {"401 Unauthorized", "403 Forbidden"} -> "AuthError"
      [] err.tmpl = "404 Not Found" -> "NotFoundError"
      [] err.tmpl = "DAX query failed: {} - {}" -> "RemoteError"
      [] err.tmpl = "DAX query failed: {}" ->
            IF err.status # 0 THEN "RemoteError" ELSE "TransportError"
      [] err.tmpl = "Error executing DAX: {}" -> "TransportError"
      [] err.tmpl \in {"Missing Azure AD credentials",
                       "Missing POWERBI_WORKSPACE_ID or POWERBI_DATASET_ID"} -> "ConfigError"
      [] err.tmpl \in {"Token error: {}", "Failed to get Power BI token: {}"} -> "AuthError"
      [] OTHER -> "None"

\* the last call issued a POST
Posted == exec_call.fn # "none" /\ exec_call.ret.posts >= 1

\* the POST of the last call was answered with one of these statuses
Answered(S) ==
    Posted /\ exec_call.resp.kind = "response" /\ exec_call.resp.status \in S

Is2xx(status) == status >= 200 /\ status < 300

\* C1: a POST answered 400 returns no result and a QueryError carrying the
\* code and message of the body, 401 and 403 an AuthError, 404 a
\* NotFoundError, and 200 (with a JSON body) the result and no error.
C1_StatusMapping ==
    /\ Answered({400}) =>
          /\ exec_call.ret.result = None
          /\ ErrorKind(exec_call.ret.err) = "QueryError"
          /\ exec_call.resp.body = "error_full" =>
                (exec_call.ret.err.code = "E" /\ exec_call.ret.err.msg = "M")
    /\ Answered({401, 403}) =>
          (exec_call.ret.result = None /\ ErrorKind(exec_call.ret.err) = "AuthError")
    /\ Answered({404}) =>
          (exec_call.ret.result = None /\ ErrorKind(exec_call.ret.err) = "NotFoundError")
    /\ (Answered({200}) /\ ~json_raises(exec_call.resp.body)) =>
          (exec_call.ret.err = NoErr /\ exec_call.ret.result = exec_call.resp.body)

\* C2: any other non-2xx status gives a RemoteError carrying the status, an
\* exception of the transport gives a TransportError carrying its message,
\* and no non-2xx status is reported as success.
C2_GenericErrors ==
    /\ Answered({x \in Statuses : ~Is2xx(x)} \ {400, 401, 403, 404}) =>
          /\ exec_call.ret.result = None
          /\ ErrorKind(exec_call.ret.err) = "RemoteError"
          /\ exec_call.ret.err.status = exec_call.resp.status
    /\ (Posted /\ exec_call.resp.kind = "exception") =>
          /\ exec_call.ret.result = None
          /\ ErrorKind(exec_call.ret.err) = "TransportError"
          /\ exec_call.ret.err.msg = exec_call.resp.body
    /\ Answered({x \in Statuses : ~Is2xx(x)}) => exec_call.ret.err # NoErr

\* C3: a transient status (429, 500, 502, 503, 504) is surfaced as an error
\* only after 3 attempts have been made.
C3_TransientRetried ==
    (Answered({429, 500, 502, 503, 504}) /\ exec_call.ret.err # NoErr) =>
        exec_call.ret.posts = 3

\* C4: a call whose first POST is answered 400, 401, 403 or 404 issues
\* exactly one POST and returns the error.
C4_NoRetryOfNonTransient ==
    Answered({400, 401, 403, 404}) =>
        /\ exec_call.ret.posts = 1
        /\ exec_call.ret.result = None
        /\ exec_call.ret.err # NoErr

C4_Witness ==
    /\ exec_call.fn = "dax_agent"
    /\ Answered({404})
    /\ exec_call.ret.err.tmpl = "404 Not Found"

(***************************************************************************)
(* Schema Discovery: completeness, caching, refresh, no exception          *)
(***************************************************************************)
\* C5: every map get_cached_schema returns has a key for each table of the
\* known-table list, a failed table being present with an empty list.
C5_SchemaComplete ==
    \A t \in active :
        ret_schema[t] # <<>> => DOMAIN ret_schema[t][1] = TableSet

\* a step that starts a get_cached_schema call
CallStep == n_calls' = n_calls + 1

\* the call returned the cached map at once: nothing probed, nothing replaced
Hit(t) ==
    /\ pc'[t] = "idle"
    /\ ret_schema'[t] = schema_cache
    /\ schema_cache' = schema_cache
    /\ schema_cache_time' = schema_cache_time
    /\ probe_calls'[t] = NoCounts
    /\ probe_posts'[t] = 0

Elapsed == now - schema_cache_time[1]

HasMap == schema_cache # <<>> /\ schema_cache_time # <<>>

\* C6 as stated: with a map present and no more than 3600 s elapsed since
\* the last build, the call returns the cached map and probes nothing.
C6_HitUpToInterval ==
    [][\A t \in active :
          (CallStep /\ HasMap /\ Elapsed <= SCHEMA_TTL) => Hit(t)]_vars

\* C6 amended: the call returns the cached map unchanged, without a probe,
\* exactly when a map exists and less than 3600 s have elapsed since the
\* start of the call that built it; otherwise it starts a rebuild.
C6_HitBelowInterval ==
    [][\A t \in active :
          CallStep =>
             /\ Hit(t) <=> (HasMap /\ Elapsed < SCHEMA_TTL)
             /\ ~Hit(t) => pc'[t] = "discover"]_vars

C6_Witness ==
    /\ n_calls = 2
    /\ pc["t1"] = "idle"
    /\ HasMap
    /\ ret_schema["t1"] = schema_cache
    /\ probe_calls["t1"] = NoCounts
    /\ current_time["t1"] - schema_cache_time[1] = SCHEMA_TTL - 1

\* C7: a call made when no map exists or the interval has elapsed runs one
\* probe round, one probe query per table in list order, and the map it
\* returns is the map left in the cache.
C7_OneProbeRound ==
    [][\A t \in active :
          /\ (CallStep /\ ~(HasMap /\ Elapsed < SCHEMA_TTL)) =>
                (pc'[t] = "discover" /\ probe_calls'[t] = NoCounts /\ table_idx'[t] = 1)
          /\ (pc[t] = "discover" /\ pc'[t] = "discover"
                /\ <<table_idx[t], probe_calls[t], schema[t]>>'
                      # <<table_idx[t], probe_calls[t], schema[t]>>) =>
                /\ table_idx'[t] = table_idx[t] + 1
                /\ probe_calls'[t] =
                      [probe_calls[t] EXCEPT ![Tables[table_idx[t]]] = @ + 1]
          /\ (pc[t] = "discover" /\ pc'[t] = "idle") =>
                /\ probe_calls[t] = [x \in TableSet |-> 1]
                /\ probe_calls'[t] = probe_calls[t]
                /\ ret_schema'[t] = <<schema[t]>>
                /\ schema_cache' = ret_schema'[t]
                /\ schema_cache_time' = <<current_time[t]>>]_vars

C7_Witness ==
    /\ n_calls = 2
    /\ pc["t1"] = "idle"
    /\ probe_calls["t1"] = [x \in TableSet |-> 1]
    /\ current_time["t1"] = SCHEMA_TTL
    /\ schema_cache_time = <<SCHEMA_TTL>>
    /\ ret_schema["t1"] = schema_cache

\* C8: get_cached_schema never raises and every finished call has returned
\* a map, whatever the probes met.
C8_NeverRaises ==
    \A t \in active :
        /\ ~raised[t]
        /\ (pc[t] = "idle" /\ n_calls > 0) => ret_schema[t] # <<>>

C8_Witness ==
    /\ pc["t1"] = "idle"
    /\ ret_schema["t1"] # <<>>
    /\ "flights" \in DOMAIN ret_schema["t1"][1]
    /\ ret_schema["t1"][1]["flights"] = <<>>
    /\ "airlines" \notin DOMAIN ret_schema["t1"][1]
    /\ probe_posts["t1"] = 1

(***************************************************************************)
(* Documentation Retriever: critical rules, bound, duplicates, order       *)
(***************************************************************************)
Range(seq) == {seq[i] : i \in DOMAIN seq}

IsCritical(x) == "Critical Rules" \in x.marks

\* C9: when the loaded text has a section with the Critical Rules marker,
\* every non-empty result contains such a section.
C9_CriticalRulesIncluded ==
    (/\ doc_call.done
     /\ \E x \in Range(doc_call.sections) : IsCritical(x)
     /\ doc_call.result # <<>>)
    => \E x \in Range(doc_call.result) : IsCritical(x)

\* position of the first occurrence of x in the working list
FirstPos(x) ==
    CHOOSE k \in DOMAIN doc_call.relevant :
        doc_call.relevant[k] = x /\ \A m \in 1..(k - 1) : doc_call.relevant[m] # x

Min(a, b) == IF a < b THEN a ELSE b

\* C10: the result has at most 5 sections, no section twice, every section
\* taken from the working list, in the order of their first occurrence
\* there; it is as long as the working list's distinct sections allow.
C10_BoundedUniqueOrdered ==
    doc_call.done =>
        /\ Len(doc_call.result) <= 5
        /\ Len(doc_call.result) = Min(5, Cardinality(Range(doc_call.relevant)))
        /\ \A i \in DOMAIN doc_call.result :
              doc_call.result[i] \in Range(doc_call.relevant)
        /\ \A i, j \in DOMAIN doc_call.result :
              i < j => /\ doc_call.result[i] # doc_call.result[j]
                       /\ FirstPos(doc_call.result[i]) < FirstPos(doc_call.result[j])

C10_Witness ==
    /\ doc_call.done
    /\ Len(doc_call.result) = 5
    /\ Cardinality(Range(doc_call.relevant)) > 5
    /\ Len(doc_call.relevant) > Cardinality(Range(doc_call.relevant))

\* the keywords of the six groups of get_relevant_dax_docs
AllKeywords ==
    {"delay", "breakdown", "compare", "types", "categories",
     "top", "highest", "lowest", "best", "worst", "most", "least",
     "group", "by", "each", "per", "count", "how many", "total number",
     "sum", "total", "amount", "insight", "summary", "overview", "quick"}

\* C11: two calls with the same query return the same ordered section
\* list, whatever the earlier call did and whether the text was cached,
\* not yet loaded, or its load had failed.
C11_SameQuerySameResult ==
    [][(doc_call.done /\ doc_call'.done /\ doc_call'.query = doc_call.query)
          => doc_call'.result = doc_call.result]_vars

\* C12: when the documentation file is missing or no keyword of any group
\* occurs in the query, the call returns a non-empty default excerpt.
C12_DefaultExcerpt ==
    (/\ doc_call.done
     /\ \/ doc_file = <<>>
        \/ ~any_in_query(AllKeywords, doc_call.query))
    => doc_call.result # <<>>

(***************************************************************************)
(* Credential Provider and the success/error pairs of the leaf components  *)
(***************************************************************************)
\* what the provider returns to the last executor call
TokenOfCall == get_powerbi_access_token(env, exec_call.idp)

\* C16: when the token cannot be obtained the executor returns no result
\* together with the provider's error, unchanged, and issues no POST.
C16_TokenFailurePropagated ==
    (exec_call.fn # "none" /\ Truthy(TokenOfCall.err))
    => exec_call.ret = Ret(None, TokenOfCall.err, 0)

C16_Witness ==
    /\ exec_call.fn = "dax_agent"
    /\ env = AllSet
    /\ exec_call.idp = "exception"
    /\ exec_call.ret.err.tmpl = "Failed to get Power BI token: {}"
    /\ exec_call.ret.posts = 0

\* C17: with the tenant id, the client id or the client secret missing the
\* provider returns no token and the configuration error, without calling
\* the identity provider; the error is not one of the identity provider's.
C17_MissingCredentialIsConfigError ==
    (/\ token_call.done
     /\ ~(env["AAD_TENANT_ID"] /\ env["AAD_CLIENT_ID"] /\ env["AAD_CLIENT_SECRET"]))
    => /\ token_call.ret.token = None
       /\ ErrorKind(token_call.ret.err) = "ConfigError"
       /\ token_call.ret.idp_calls = 0
       /\ \A e \in Envs, idp \in IdpOutcomes :
             get_powerbi_access_token(e, idp).idp_calls >= 1
             => get_powerbi_access_token(e, idp).err # token_call.ret.err

C17_Witness ==
    /\ token_call.done
    /\ token_call.idp = "access_token"
    /\ env = [AllSet EXCEPT !["AAD_CLIENT_SECRET"] = FALSE]
    /\ token_call.ret.err.tmpl = "Missing Azure AD credentials"

\* JSON null parsed by resp.json() is Python's None
IsNone(v) == v \in {None, "null"}

\* C18: every call of the provider and of the executor returns either a
\* value and no error, or no value and an error string.
C18_ExplicitPairs ==
    /\ exec_call.fn # "none"
       => (IsNone(exec_call.ret.result) <=> Truthy(exec_call.ret.err))
    /\ token_call.done
       => (IsNone(token_call.ret.token) <=> Truthy(token_call.ret.err))

(***************************************************************************)
(* The agent tools and the agent loop                                      *)
(***************************************************************************)
\* C14: each of the five tools returns a string, whatever its input and
\* whatever the identity provider and the endpoint answer; no exception
\* escapes a tool.
C14_ToolsReturnStrings ==
    tool_call.tool \in ToolNames => tool_call.did.ret.raised = ""

\* the tool results of the transcript before position i
Before(i) == {agent.messages[j] : j \in 1..(i - 1)}

\* C13: in every invocation schema_tool and dax_syntax_tool have both been
\* invoked before execute_dax_tool executes a query.
C13_SchemaAndDocsBeforeQuery ==
    \A i \in DOMAIN agent.messages :
        agent.messages[i] = "execute_dax_tool"
        => {"schema_tool", "dax_syntax_tool"} \subseteq Before(i)

\* C15: an invocation takes a bounded number of tool steps and ends in
\* FinalAnswerProduced, entered exactly on a response of the engine without
\* tool request; it does not end in a fault, also when the step limit is
\* exhausted.
C15_EndsWithFinalAnswer ==
    /\ Len(agent.messages) <= recursion_limit
    /\ agent.state # "Fault"
    /\ agent.state = "FinalAnswerProduced" => agent.response = "answer"

(***************************************************************************)
(* Fast metrics                                                            *)
(***************************************************************************)
\* the synthetic rows the generated predicate is evaluated on
Rows == [AIRLINE : {"AA", "DL", "UA"}, MONTH : {"1", "2"}, DATE : {"d1", "d2", "d3"}]

\* the order of the timestamps
DateRank(d) == CASE d = "d1" -> 1 [] d = "d2" -> 2 [] OTHER -> 3

\* a row satisfies one condition of the generated predicate
Holds(c, row) ==
    CASE c.op = "between" ->
            /\ DateRank(c.lits[1].text) <= DateRank(row[c.col])
            /\ DateRank(row[c.col]) <= DateRank(c.lits[2].text)
      [] OTHER -> \E i \in DOMAIN c.lits : c.lits[i].text = row[c.col]

\* the rows the generated table expression selects
Selected(table) ==
    {row \in Rows : \A i \in DOMAIN table.clause : Holds(table.clause[i], row)}

\* a row matches one filter of the context, by the kind of the filter
MatchesFilter(info, v) ==
    CASE info.values = <<>> -> TRUE
      [] info.kind = "date-range" ->
            /\ DateRank(info.values[1]) <= DateRank(v)
            /\ DateRank(v) <= DateRank(info.values[2])
      [] info.kind = "single" -> v = info.values[1]
      [] OTHER -> \E i \in DOMAIN info.values : v = info.values[i]

Matching(context) ==
    {row \in Rows : \A c \in DOMAIN context : MatchesFilter(context[c], row[c])}

\* C19: the predicate generated for a filter context selects exactly the
\* rows that match it: inclusive bounds for a date range, equality for a
\* single value, membership for several values, all columns conjoined, and
\* the full table for no filter.
C19_PredicateSelectsMatchingRows ==
    (insight_call.fn # "none" /\ insight_call.did.queries > 0)
    => Selected(insight_call.did.table) = Matching(insight_call.context)

\* the statistic query of metric m gave rows with a number
Succeeded(m) == insight_call.outs[m] = StatOutcome(OkRows, "number")

\* C20: whichever statistic queries fail, the computation completes, every
\* other statistic is reported, a failed one is absent or 0, and the result
\* is not an error.
C20_PerMetricDegradation ==
    (/\ insight_call.fn = "powerbi"
     /\ insight_call.llm = "content"
     /\ \A m \in Metrics : insight_call.outs[m].val = "number")
    => /\ ~insight_call.did.result.error
       /\ \A m \in Metrics :
             IF Succeeded(m) THEN insight_call.did.stats[m] = "number"
             ELSE insight_call.did.stats[m] \in {"absent", "zero"}

(***************************************************************************)
(* Documentation Retriever fallback, dimension comparison, quick stats     *)
(***************************************************************************)
\* C27: for a query without any keyword of the six groups the call returns
\* the sections of the always-useful list (EVALUATE, ADDCOLUMNS, Common
\* Patterns, Critical Rules), deduplicated and limited to 5.
C27_FallbackList ==
    (doc_call.done /\ ~any_in_query(AllKeywords, doc_call.query))
    => doc_call.result =
          first_five(dedupe(having(doc_call.sections,
              {"EVALUATE", "ADDCOLUMNS", "Common Patterns", "Critical Rules"})))

\* the dimension names compare_tool advertises
AdvertisedDimensions == {"airline", "origin", "destination", "month"}

\* the argument names an advertised dimension
Advertised(arg) == \E d \in AdvertisedDimensions : occurs_in(<<d>>, lower(arg))

\* C28: compare_tool builds and executes one comparison query for each of
\* airline, origin, destination and month, and returns 'Unknown dimension',
\* without a remote call, only for other dimensions.
C28_AdvertisedDimensionsSupported ==
    tool_call.tool = "compare_tool"
    => IF Advertised(tool_call.arg)
       THEN tool_call.did.query # ""
       ELSE tool_call.did.query = "" /\ tool_call.did.posts = 0

\* the metrics the argument names
Named(arg) == {i \in DOMAIN MetricKeys : occurs_in(MetricKeys[i], lower(arg))}

\* C30: quick_stats_tool executes a query, the one of the metric, only when
\* the argument names one of the five metrics; for every other argument,
\* the empty string and a fragment of several names included, it returns
\* 'Unknown metric' and executes nothing.
C30_QueryOnlyForKnownMetric ==
    tool_call.tool = "quick_stats_tool"
    => IF Named(tool_call.arg) # {}
       THEN \E i \in Named(tool_call.arg) : tool_call.did.query = MetricNames[i]
       ELSE /\ tool_call.did.query = ""
            /\ tool_call.did.posts = 0
            /\ tool_call.did.ret.tmpl = "Unknown metric: {}. Available: {}"


\* C21: for every supported dimension and every top_n >= 1, the comparison
\* returns at most top_n rows, sorted descending by the measure, also when
\* several dimension values tie on the measure
C21_BoundedAndOrdered ==
    compare_rows # NoComparison
    => /\ Len(compare_rows.rows) <= compare_rows.top_n
       /\ \A i, j \in 1..Len(compare_rows.rows) :
             i < j => compare_rows.measure[compare_rows.rows[i]]
                        >= compare_rows.measure[compare_rows.rows[j]]


\* the run of this step consulted the cache for the filter context it had:
\* one run, no forced regeneration, no new URL payload taken over
PlainRun ==
    /\ panel'.runs = panel.runs + 1
    /\ panel.filter_context # <<>>
    /\ panel'.filter_context = panel.filter_context
    /\ panel'.last_url_filters = panel.last_url_filters
    /\ ~panel.force_regenerate

\* C22: after store(context, insights) with a non-empty filter context, a
\* following get_cached with the same context returns the entry holding
\* exactly those insights, and the panel serves it without generating again,
\* whatever was stored for other contexts before
C22_StoreThenGetCached ==
    [][(PlainRun /\ Items(panel.filter_context[1].filters) \in DOMAIN panel.stored)
       => /\ get_cached(panel.insights_cache, panel.filter_context) # <<>>
          /\ panel'.shown =
                Shown("cached", panel.stored[Items(panel.filter_context[1].filters)])
          /\ panel'.generated = panel.generated]_vars

C22_Witness ==
    /\ panel.shown.branch = "cached"
    /\ panel.shown.insights.tmpl = "content"
    /\ Cardinality(DOMAIN panel.insights_cache.cache) = 2

\* C23: the cache holds exactly one entry per distinct filter context
\* stored; contexts with different column/value constraints never share an
\* entry, and the same context with its keys in another order maps to the
\* same entry
C23_OneEntryPerContext ==
    LET self == panel.insights_cache IN
    /\ Cardinality(DOMAIN self.cache) = Cardinality(DOMAIN panel.stored)
    /\ \A K \in DOMAIN panel.stored : \A f \in PanelFilters \cup {<<>>} :
          Items(f) = K
          => /\ get_cached(self, <<Context(f)>>) # <<>>
             /\ get_cached(self, <<Context(f)>>)[1].insights = panel.stored[K]

C23_Witness ==
    /\ Cardinality(DOMAIN panel.stored) = 2
    /\ \E K \in DOMAIN panel.stored : Cardinality(K) = 2
    /\ \E i \in DOMAIN panel.insights_history :
          panel.insights_history[i].context.filters = <<Item("DATE"), Item("AIRLINE")>>

\* C24: no insight generation is started while less than the debounce
\* interval has elapsed since the last trigger, whether the trigger is a
\* changed URL payload or a manual override
C24_Debounce ==
    [][panel'.generated > panel.generated
       => \/ panel.insights_cache.last_trigger = 0
          \/ panel.clock - panel.insights_cache.last_trigger >= debounce_seconds]_vars

\* C29: the cache holds only successfully generated answers; a failed
\* generation stores no entry
C29_OnlySuccessfulAnswersCached ==
    \A h \in DOMAIN panel.insights_cache.cache :
        ~panel.insights_cache.cache[h].insights.error


\* a required configuration group is absent: Azure AD credentials,
\* workspace/dataset/report ids, or the LLM endpoint/key/version/name
GroupAbsent ==
    \/ ~all_set(startup.config, AadNames)
    \/ ~all_set(startup.config, IdNames)
    \/ ~all_set(startup.config, LlmNames)

\* C26: when a required configuration group is absent, startup ends in the
\* configuration-error state (error shown, processing stopped), not in a
\* crash, and gets there before the agent is constructed and before any
\* remote call
C26_ConfigErrorNotCrash ==
    (startup.at # "not started" /\ GroupAbsent)
    => /\ ~startup.agent_executor
       /\ startup.remote_calls = 0
       /\ startup.at \notin {"crashed", "running"}
       /\ startup.at = "stopped" => startup.error # <<>>


\* C25: with several sessions calling get_cached_schema while a refresh is
\* in progress, no caller observes a partially rebuilt map: the cached map
\* is only ever replaced by a completely built map, and a published map is
\* never changed in place
C25_AtomicRefresh ==
    /\ shared.cache # <<>> => shared.cache[1] \in shared.built
    /\ \A id \in DOMAIN shared.published :
          /\ id \in shared.built
          /\ shared.heap[id] = shared.published[id]
    /\ \A t \in Threads :
          /\ shared.th[t].ret # <<>> => shared.th[t].ret[1] \in DOMAIN shared.published
          /\ shared.th[t].read # <<>>
             => shared.th[t].read[1] = shared.published[shared.th[t].ret[1]]

\* a caller was handed the cached map while another thread was in the
\* middle of a refresh, after an earlier refresh had published a map
C25_Witness ==
    \E t, u \in Threads :
        /\ t # u
        /\ shared.th[t].read # <<>>
        /\ shared.th[u].at = "discover"
        /\ shared.th[u].table_idx \in 2..Len(Tables)
        /\ shared.heap[shared.th[u].schema] # EmptyMap
        /\ shared.th[t].ret # <<shared.th[u].schema>>

====
